---- MODULE Spec2Model ----
(***************************************************************************)
(* Model of the layered ("Clean Architecture") backend of Teamera: the     *)
(* in-memory user, project and application repositories and the use cases  *)
(* that run against them.  One action is one use-case execution run to     *)
(* completion (every await of the in-memory repositories resolves without  *)
(* another request running in between).                                    *)
(*                                                                         *)
(* Identifiers.  Ids are strings in the source; here they are integers.    *)
(* 0 stands for a missing id (undefined / null / ''), which the code tests *)
(* with `!id`.  The sample ids 'user_k' and 'proj_k' of                    *)
(* _initializeSampleData are k; generated ids (`user_<time>_<random>`,     *)
(* `proj_...`, `app_...`) are fresh and never reused, modelled by          *)
(* counters.                                                               *)
(*                                                                         *)
(* Strings that the code trims, lower-cases, measures or matches are       *)
(* sequences of one-character strings.                                     *)
(***************************************************************************)
EXTENDS Integers, Sequences, FiniteSets, TLC

(* Bounds of the model: how many users, projects and applications the      *)
(* use cases may create in one behaviour.                                  *)
MaxUsers == 1

MaxProjects == 1

MaxApplications == 2

\* applications created in one run of the team workflow
MaxTeamApplications == 1

VARIABLES
    users,          \* InMemoryUserRepository.users: id -> stored record
    projects,       \* InMemoryProjectRepository.projects: id -> Project
    applications,   \* InMemoryApplicationRepository.applications: id -> data
    userSeq,        \* number of user ids generated so far
    projectSeq,     \* number of project ids generated so far
    applicationSeq, \* number of application ids generated so far
    last,           \* the use case executed last, its arguments and outcome
    tasks,          \* the executions that interleave: where each is suspended
                    \* and what its local variables hold
    paging,         \* a request for a page and the page it is answered with
    http,           \* an HTTP request on its way through the middleware
    database,       \* the DatabaseConnection singleton and its connect() calls
    auth            \* the frontend AuthProvider, localStorage and the backend
                    \* calls it waits for

\* the repositories of the backend and the executions of its use cases
repositories == <<users, projects, applications, userSeq, projectSeq, applicationSeq,
                  last, tasks>>

\* the state outside the repositories
others == <<paging, http, database, auth>>

vars == <<users, projects, applications, userSeq, projectSeq, applicationSeq, last,
          tasks, paging, http, database, auth>>

-----------------------------------------------------------------------------
(* JavaScript strings *)

\* the value undefined where a string is expected; differs from every string
Undefined == <<"undefined">>

UpperCase ==
    <<"A", "B", "C", "D", "E", "F", "G", "H", "I", "J", "K", "L", "M",
      "N", "O", "P", "Q", "R", "S", "T", "U", "V", "W", "X", "Y", "Z">>

LowerCase ==
    <<"a", "b", "c", "d", "e", "f", "g", "h", "i", "j", "k", "l", "m",
      "n", "o", "p", "q", "r", "s", "t", "u", "v", "w", "x", "y", "z">>

ToLowerChar(c) ==
    IF \E i \in DOMAIN UpperCase : UpperCase[i] = c
    THEN LowerCase[CHOOSE i \in DOMAIN UpperCase : UpperCase[i] = c]
    ELSE c

\* String.prototype.toLowerCase
ToLowerCase(s) == [i \in 1..Len(s) |-> ToLowerChar(s[i])]

IsSpace(c) == c \in {" ", "\t", "\n"}

RECURSIVE TrimStart(_)
TrimStart(s) ==
    IF s # <<>> /\ IsSpace(Head(s)) THEN TrimStart(Tail(s)) ELSE s

RECURSIVE TrimEnd(_)
TrimEnd(s) ==
    IF s # <<>> /\ IsSpace(s[Len(s)]) THEN TrimEnd(SubSeq(s, 1, Len(s) - 1)) ELSE s

\* String.prototype.trim
Trim(s) == TrimEnd(TrimStart(s))

\* JavaScript truthiness of a string-or-undefined value
Truthy(s) == s # Undefined /\ s # <<>>

\* [^\s@]+ : a non-empty run without white space and without '@'
IsEmailPart(s) == s # <<>> /\ \A i \in DOMAIN s : ~IsSpace(s[i]) /\ s[i] # "@"

\* User.isValidEmail: /^[^\s@]+@[^\s@]+\.[^\s@]+$/
IsValidEmail(email) ==
    \E i, j \in DOMAIN email :
        /\ i < j
        /\ email[i] = "@"
        /\ email[j] = "."
        /\ IsEmailPart(SubSeq(email, 1, i - 1))
        /\ IsEmailPart(SubSeq(email, i + 1, j - 1))
        /\ IsEmailPart(SubSeq(email, j + 1, Len(email)))

-----------------------------------------------------------------------------
(* Enumerations *)

\* ApplicationStatus
PENDING == "pending"

ACCEPTED == "accepted"

REJECTED == "rejected"

WITHDRAWN == "withdrawn"

ApplicationStatus == {PENDING, ACCEPTED, REJECTED, WITHDRAWN}

\* Project.STAGES
STAGES == {"idea", "prototype", "mvp", "growth", "scaling"}

\* User.VALID_ROLES
VALID_ROLES == {"user", "admin", "moderator"}

\* User.VALID_STATUSES
VALID_STATUSES == {"active", "inactive", "suspended"}

\* a timestamp produced by new Date().toISOString(); null is NoTime
Now == "now"

NoTime == "null"

-----------------------------------------------------------------------------
(* Sample data of InMemoryProjectRepository._initializeSampleData *)

SampleTitle1 ==
    <<
       "A", "I", "-", "P", "o", "w", "e", "r", "e", "d", " ", "C", "o", "d", "e", " ", "R",
       "e", "v", "i", "e", "w", " ", "T", "o", "o", "l"
    >>

SampleDescription1 ==
    <<
       "B", "u", "i", "l", "d", "i", "n", "g", " ", "a", "n", " ", "i", "n", "t", "e", "l",
       "l", "i", "g", "e", "n", "t", " ", "c", "o", "d", "e", " ", "r", "e", "v", "i", "e",
       "w", " ", "a", "s", "s", "i", "s", "t", "a", "n", "t", " ", "t", "h", "a", "t", " ",
       "u", "s", "e", "s", " ", "m", "a", "c", "h", "i", "n", "e", " ", "l", "e", "a", "r",
       "n", "i", "n", "g", " ", "t", "o", " ", "p", "r", "o", "v", "i", "d", "e", " ", "a",
       "c", "t", "i", "o", "n", "a", "b", "l", "e", " ", "f", "e", "e", "d", "b", "a", "c",
       "k", " ", "o", "n", " ", "p", "u", "l", "l", " ", "r", "e", "q", "u", "e", "s", "t",
       "s", "."
    >>

SampleTitle2 ==
    <<
       "S", "u", "s", "t", "a", "i", "n", "a", "b", "l", "e", " ", "F", "a", "s", "h", "i",
       "o", "n", " ", "M", "a", "r", "k", "e", "t", "p", "l", "a", "c", "e"
    >>

SampleDescription2 ==
    <<
       "A", " ", "m", "a", "r", "k", "e", "t", "p", "l", "a", "c", "e", " ", "c", "o", "n",
       "n", "e", "c", "t", "i", "n", "g", " ", "e", "c", "o", "-", "c", "o", "n", "s", "c",
       "i", "o", "u", "s", " ", "c", "o", "n", "s", "u", "m", "e", "r", "s", " ", "w", "i",
       "t", "h", " ", "s", "u", "s", "t", "a", "i", "n", "a", "b", "l", "e", " ", "f", "a",
       "s", "h", "i", "o", "n", " ", "b", "r", "a", "n", "d", "s", " ", "a", "n", "d", " ",
       "s", "e", "c", "o", "n", "d", "-", "h", "a", "n", "d", " ", "c", "l", "o", "t", "h",
       "i", "n", "g", " ", "s", "e", "l", "l", "e", "r", "s", "."
    >>

SampleTitle3 ==
    <<
       "M", "e", "n", "t", "a", "l", " ", "H", "e", "a", "l", "t", "h", " ", "S", "u", "p",
       "p", "o", "r", "t", " ", "A", "p", "p"
    >>

SampleDescription3 ==
    <<
       "A", " ", "m", "o", "b", "i", "l", "e", " ", "a", "p", "p", " ", "p", "r", "o", "v",
       "i", "d", "i", "n", "g", " ", "a", "c", "c", "e", "s", "s", "i", "b", "l", "e", " ",
       "m", "e", "n", "t", "a", "l", " ", "h", "e", "a", "l", "t", "h", " ", "r", "e", "s",
       "o", "u", "r", "c", "e", "s", ",", " ", "m", "o", "o", "d", " ", "t", "r", "a", "c",
       "k", "i", "n", "g", ",", " ", "a", "n", "d", " ", "p", "e", "e", "r", " ", "s", "u",
       "p", "p", "o", "r", "t", " ", "c", "o", "m", "m", "u", "n", "i", "t", "i", "e", "s",
       "."
    >>

\* 'Founder', 'Designer': the roles of the sample team members
Founder == <<"F", "o", "u", "n", "d", "e", "r">>

Designer == <<"D", "e", "s", "i", "g", "n", "e", "r">>

\* a team member entry; name, avatar, email and joinedAt are copies of the
\* user's data that no use case reads back, and are left out
Member(id, role) == [id |-> id, role |-> role]

SampleProjects ==
    [id \in {1, 2, 3} |->
        CASE id = 1 ->
               [id |-> 1, title |-> SampleTitle1, description |-> SampleDescription1,
                stage |-> "mvp", teamMembers |-> <<Member(1, Founder)>>,
                applications |-> 5, ownerId |-> 1]
          [] id = 2 ->
               [id |-> 2, title |-> SampleTitle2, description |-> SampleDescription2,
                stage |-> "prototype",
                teamMembers |-> <<Member(2, Founder), Member(3, Designer)>>,
                applications |-> 12, ownerId |-> 2]
          [] id = 3 ->
               [id |-> 3, title |-> SampleTitle3, description |-> SampleDescription3,
                stage |-> "idea", teamMembers |-> <<Member(4, Founder)>>,
                applications |-> 8, ownerId |-> 4]]

\* the user ids the sample projects mention: 'user_1' .. 'user_4'
SampleUserIds == {1, 2, 3, 4}

\* the n-th generated user / project / application id
UserId(n) == Cardinality(SampleUserIds) + n

ProjectId(n) == Cardinality(DOMAIN SampleProjects) + n

ApplicationId(n) == n

-----------------------------------------------------------------------------
(* Map operations *)

EmptyMap == [k \in {} |-> 0]

\* Map.prototype.set
MapSet(map, key, value) ==
    [k \in DOMAIN map \cup {key} |-> IF k = key THEN value ELSE map[k]]

\* Map.prototype.delete
MapDelete(map, key) == [k \in DOMAIN map \ {key} |-> map[k]]

Min(S) == CHOOSE x \in S : \A y \in S : x <= y

-----------------------------------------------------------------------------
(* The state the constructors build *)

\* nothing has been requested
Idle == [op |-> "none"]

\* the repositories after construction
InitRepositories ==
    /\ users = EmptyMap
    /\ projects = SampleProjects
    /\ applications = EmptyMap
    /\ userSeq = 0
    /\ projectSeq = 0
    /\ applicationSeq = 0
    /\ last = [op |-> "none", result |-> "none", name |-> <<>>, email |-> <<>>,
               count |-> 0]
    /\ tasks = <<>>

Init ==
    /\ InitRepositories
    /\ paging = Idle
    /\ http = Idle
    /\ database = Idle
    /\ auth = Idle

-----------------------------------------------------------------------------
(* User entity and InMemoryUserRepository *)

\* User.validate, on the fields the use cases below can set
UserIsValid(user) ==
    /\ Truthy(user.name)
    /\ Len(Trim(user.name)) >= 2
    /\ Len(Trim(user.name)) <= 100
    /\ Truthy(user.email)
    /\ IsValidEmail(user.email)
    /\ ~(Truthy(user.bio) /\ Len(user.bio) > 500)
    /\ user.role \in VALID_ROLES
    /\ user.status \in VALID_STATUSES

\* the password of an entity that was given none
NoPassword == "null"

\* the avatar of an entity that was given none
NoAvatar == <<"null">>

\* the socialLinks of an entity that was given none; links are the set of
\* the pairs of a key and its value
NoLinks == {}

\* { ...links, ...more }
Spread(links, more) ==
    more \cup {link \in links : \A other \in more : other[1] # link[1]}

\* the field of the data when the data has it, undefined otherwise
Field(data, f) == IF f \in DOMAIN data THEN data[f] ELSE Undefined

\* a default parameter of the User constructor
Default(value, default) == IF value = Undefined THEN default ELSE value

\* User.create: trims the name, lower-cases and trims the email
UserCreate(data) ==
    [name |-> IF data.name = Undefined THEN Undefined ELSE Trim(data.name),
     email |-> IF data.email = Undefined THEN Undefined ELSE Trim(ToLowerCase(data.email)),
     password |-> IF "password" \in DOMAIN data THEN data.password ELSE NoPassword,
     avatar |-> Default(Field(data, "avatar"), NoAvatar),
     bio |-> Default(Field(data, "bio"), <<>>),
     role |-> data.role,
     status |-> "active",
     skills |-> Default(Field(data, "skills"), <<>>),
     socialLinks |-> IF "socialLinks" \in DOMAIN data THEN data.socialLinks
                     ELSE NoLinks]

\* User.toJSON as it would be if it serialized every field of the entity
ToJSONWithPassword(user) == user

\* User.toJSON
ToJSON(user) ==
    [f \in {"id", "name", "email", "avatar", "bio", "role", "status", "skills",
             "socialLinks"} \cap DOMAIN user |-> user[f]]

\* User.toPublicProfile
ToPublicProfile(user) ==
    [f \in {"id", "name", "avatar", "bio", "skills", "socialLinks"} \cap DOMAIN user
        |-> user[f]]

\* User.fromPersistence
FromPersistence(record) ==
    [id |-> record.id,
     name |-> record.name,
     email |-> record.email,
     password |-> IF "password" \in DOMAIN record THEN record.password ELSE NoPassword,
     avatar |-> Default(Field(record, "avatar"), NoAvatar),
     bio |-> Default(Field(record, "bio"), <<>>),
     role |-> record.role,
     status |-> record.status,
     skills |-> Default(Field(record, "skills"), <<>>),
     socialLinks |-> IF "socialLinks" \in DOMAIN record THEN record.socialLinks
                     ELSE NoLinks]

\* the record InMemoryUserRepository.create stores for the entity under the id
UserData(id, user) == [id |-> id] @@ ToJSON(user)

\* InMemoryUserRepository.findByEmail: the id of the first stored user (in
\* insertion order) with that email, 0 when there is none
FindByEmail(email) ==
    LET normalizedEmail == Trim(ToLowerCase(email))
        found == {id \in DOMAIN users : ToLowerCase(users[id].email) = normalizedEmail}
    IN  IF found = {} THEN 0 ELSE Min(found)

\* InMemoryUserRepository.findById / exists
UserExists(id) == id \in DOMAIN users

\* InMemoryProjectRepository.findByOwnerId
FindByOwnerId(ownerId) == {id \in DOMAIN projects : projects[id].ownerId = ownerId}

\* CreateUserUseCase.execute as it would be if the address were looked up as
\* it was typed
CreateUserOutcomeExactLookup(userData) ==
    IF ~Truthy(userData.name) \/ ~Truthy(userData.email)
    THEN [result |-> "VALIDATION_ERROR", users |-> users]
    ELSE IF \E id \in DOMAIN users : users[id].email = userData.email
    THEN [result |-> "EMAIL_EXISTS", users |-> users]
    ELSE LET user == UserCreate([name |-> userData.name, email |-> userData.email,
                                 role |-> "user"])
         IN  IF ~UserIsValid(user)
             THEN [result |-> "ValidationError", users |-> users]
             ELSE [result |-> "ok",
                   users |-> MapSet(users, UserId(userSeq + 1),
                                    UserData(UserId(userSeq + 1), user)),
                   value |-> ToJSON(FromPersistence(UserData(UserId(userSeq + 1), user)))]

\* CreateUserUseCase.execute: the result and the users map it leaves
CreateUserOutcome(userData) ==
    IF ~Truthy(userData.name) \/ ~Truthy(userData.email)
    THEN [result |-> "VALIDATION_ERROR", users |-> users]
    ELSE IF FindByEmail(Trim(ToLowerCase(userData.email))) # 0
    THEN [result |-> "EMAIL_EXISTS", users |-> users]
    ELSE LET user == UserCreate([name |-> userData.name, email |-> userData.email,
                                 role |-> "user"])
         IN  IF ~UserIsValid(user)
             THEN [result |-> "ValidationError", users |-> users]
             ELSE [result |-> "ok",
                   users |-> MapSet(users, UserId(userSeq + 1),
                                    UserData(UserId(userSeq + 1), user)),
                   value |-> ToJSON(FromPersistence(UserData(UserId(userSeq + 1), user)))]

\* InMemoryUserRepository.emailExists
EmailExists(email, excludeUserId) ==
    LET normalizedEmail == Trim(ToLowerCase(email))
    IN  \E id \in DOMAIN users :
            /\ ToLowerCase(users[id].email) = normalizedEmail
            /\ ~(excludeUserId # 0 /\ id = excludeUserId)

\* User.update, on name and email; the caller validates the result
UserUpdate(user, data) ==
    [user EXCEPT
        !.name = IF Field(data, "name") # Undefined THEN Trim(data.name) ELSE @,
        !.email = IF Field(data, "email") # Undefined
                  THEN Trim(ToLowerCase(data.email)) ELSE @,
        !.avatar = IF Field(data, "avatar") # Undefined THEN data.avatar ELSE @,
        !.bio = IF Field(data, "bio") # Undefined THEN Trim(data.bio) ELSE @,
        !.role = IF "role" \in DOMAIN data THEN data.role ELSE @,
        !.status = IF "status" \in DOMAIN data THEN data.status ELSE @,
        !.skills = IF Field(data, "skills") # Undefined THEN data.skills ELSE @,
        !.socialLinks = IF "socialLinks" \in DOMAIN data
                        THEN Spread(@, data.socialLinks) ELSE @]

\* the record InMemoryUserRepository.update stores for the entity
UpdatedUserData(user) == ToJSON(user) @@ users[user.id]

\* UpdateUserUseCase.execute
UpdateUserOutcome(id, userData) ==
    IF id = 0
    THEN [result |-> "Error", users |-> users]
    ELSE IF ~UserExists(id)
    THEN [result |-> "USER_NOT_FOUND", users |-> users]
    ELSE LET user == FromPersistence(users[id])
         IN  IF /\ Truthy(userData.email)
                /\ ToLowerCase(userData.email) # ToLowerCase(user.email)
                /\ EmailExists(Trim(ToLowerCase(userData.email)), id)
             THEN [result |-> "EMAIL_EXISTS", users |-> users]
             ELSE LET updated == UserUpdate(user, userData)
                  IN  IF ~UserIsValid(updated)
                      THEN [result |-> "ValidationError", users |-> users]
                      ELSE [result |-> "ok",
                            users |-> MapSet(users, id, UpdatedUserData(updated)),
                            value |-> ToJSON(FromPersistence(UpdatedUserData(updated)))]

\* allowedFields as it would be if it named every field User.update sets
EveryField ==
    {"name", "email", "avatar", "bio", "role", "status", "skills", "socialLinks"}

\* allowedFields of UpdateUserProfileUseCase.execute
AllowedFields == {"avatar", "bio", "skills", "socialLinks"}

\* UpdateUserProfileUseCase.execute
UpdateUserProfileOutcome(id, profileData) ==
    IF id = 0
    THEN [result |-> "Error", users |-> users]
    ELSE IF ~UserExists(id)
    THEN [result |-> "USER_NOT_FOUND", users |-> users]
    ELSE LET user == FromPersistence(users[id])
             updates == [f \in AllowedFields \cap DOMAIN profileData |-> profileData[f]]
             updated == UserUpdate(user, updates)
         IN  IF ~UserIsValid(updated)
             THEN [result |-> "ValidationError", users |-> users]
             ELSE [result |-> "ok",
                   users |-> MapSet(users, id, UpdatedUserData(updated)),
                   value |-> ToJSON(FromPersistence(UpdatedUserData(updated)))]

\* GetUserByIdUseCase.execute
GetUserByIdOutcome(id) ==
    IF id = 0
    THEN [result |-> "Error"]
    ELSE IF ~UserExists(id)
    THEN [result |-> "USER_NOT_FOUND"]
    ELSE [result |-> "ok", value |-> ToJSON(FromPersistence(users[id]))]

\* GetUserByEmailUseCase.execute: null when no user has the address
GetUserByEmailOutcome(email) ==
    IF ~Truthy(email)
    THEN [result |-> "Error"]
    ELSE IF FindByEmail(Trim(ToLowerCase(email))) = 0
    THEN [result |-> "ok", value |-> [null |-> TRUE]]
    ELSE [result |-> "ok",
          value |-> ToJSON(FromPersistence(users[FindByEmail(Trim(ToLowerCase(email)))]))]

\* GetAllUsersUseCase.execute, when findAll selects the users `ids` (by its
\* filters and its page): the users of the value returned
GetAllUsersValue(ids) == {ToJSON(FromPersistence(users[id])) : id \in ids}

\* SearchUsersUseCase.execute and FindUsersBySkillsUseCase.execute, when the
\* repository matches the users `ids`: the users of the value returned
PublicProfilesValue(ids) == {ToPublicProfile(FromPersistence(users[id])) : id \in ids}

\* DeleteUserUseCase.execute, constructed with a project repository
DeleteUserOutcome(id) ==
    IF id = 0
    THEN [result |-> "Error", users |-> users]
    ELSE IF ~UserExists(id)
    THEN [result |-> "USER_NOT_FOUND", users |-> users]
    ELSE IF FindByOwnerId(id) # {}
    THEN [result |-> "HAS_OWNED_PROJECTS", users |-> users]
    ELSE [result |-> "ok", users |-> MapDelete(users, id),
          value |-> ToJSON(FromPersistence(users[id]))]

-----------------------------------------------------------------------------
(* Project entity and InMemoryProjectRepository *)

\* the stage argument when none is given
NoStage == "undefined"

\* IsOwner as it would be if any team member counted as the owner
IsOwnerOrMember(project, userId) ==
    \/ project.ownerId = userId
    \/ \E i \in DOMAIN project.teamMembers : project.teamMembers[i].id = userId

\* Project.isOwner
IsOwner(project, userId) == project.ownerId = userId

\* Project.isTeamMember as it would be if it found nobody
IsTeamMemberNever(project, userId) == FALSE

\* Project.isTeamMember
IsTeamMember(project, userId) ==
    \E i \in DOMAIN project.teamMembers : project.teamMembers[i].id = userId

\* the check of Project.addTeamMember as it would be if it let everybody pass
CanAddAnyone(project, member) == TRUE

\* Project.addTeamMember throws 'User is already a team member' exactly when
\* this is false
CanAddTeamMember(project, member) ==
    ~\E i \in DOMAIN project.teamMembers : project.teamMembers[i].id = member.id

\* Project.addTeamMember, when it does not throw
ProjectAddTeamMember(project, member) ==
    [project EXCEPT !.teamMembers = Append(@, Member(member.id, member.role))]

\* Project.removeTeamMember throws exactly when this is false
CanRemoveTeamMember(project, memberId) ==
    /\ memberId # project.ownerId
    /\ \E i \in DOMAIN project.teamMembers : project.teamMembers[i].id = memberId

\* Project.removeTeamMember, when it does not throw: splice(findIndex, 1)
ProjectRemoveTeamMember(project, memberId) ==
    LET members == project.teamMembers
        memberIndex == Min({i \in DOMAIN members : members[i].id = memberId})
    IN  [project EXCEPT !.teamMembers =
            SubSeq(members, 1, memberIndex - 1)
                \o SubSeq(members, memberIndex + 1, Len(members))]

\* Project.incrementApplications
IncrementApplications(project) == [project EXCEPT !.applications = @ + 1]

\* Project.update: every updatable field the data carries is assigned, strings
\* trimmed; nothing is validated.  (stage values are atoms without white space)
ProjectUpdate(project, data) ==
    [project EXCEPT
        !.title = IF data.title # Undefined THEN Trim(data.title) ELSE @,
        !.description = IF data.description # Undefined THEN Trim(data.description) ELSE @,
        !.stage = IF data.stage # NoStage THEN data.stage ELSE @]

\* Project.validate, on title, description, stage, industry and ownerId
ProjectIsValid(data) ==
    /\ Truthy(data.title)
    /\ Len(Trim(data.title)) >= 3
    /\ Len(Trim(data.title)) <= 100
    /\ Truthy(data.description)
    /\ Len(Trim(data.description)) >= 10
    /\ Len(Trim(data.description)) <= 2000
    /\ (data.stage # NoStage => data.stage \in STAGES)
    /\ Truthy(data.industry)
    /\ data.ownerId # 0

\* Project.create as it would be if it dropped the team members it is given
ProjectCreateNoTeam(id, data) ==
    [id |-> id,
     title |-> Trim(data.title),
     description |-> Trim(data.description),
     stage |-> IF data.stage # NoStage THEN data.stage ELSE "idea",
     teamMembers |-> <<>>,
     applications |-> 0,
     ownerId |-> data.ownerId]

\* Project.create
ProjectCreate(id, data) ==
    [id |-> id,
     title |-> Trim(data.title),
     description |-> Trim(data.description),
     stage |-> IF data.stage # NoStage THEN data.stage ELSE "idea",
     teamMembers |-> data.teamMembers,
     applications |-> 0,
     ownerId |-> data.ownerId]

\* InMemoryProjectRepository.existsByTitleAndOwner
ExistsByTitleAndOwner(title, ownerId) ==
    \E id \in DOMAIN projects :
        /\ ToLowerCase(projects[id].title) = ToLowerCase(title)
        /\ projects[id].ownerId = ownerId

\* CreateProjectUseCase.execute
CreateProjectOutcome(input) ==
    IF ~UserExists(input.ownerId)
    THEN [result |-> "Error", projects |-> projects]
    ELSE IF input.title = Undefined
    THEN [result |-> "TypeError", projects |-> projects]
    ELSE IF ExistsByTitleAndOwner(input.title, input.ownerId)
    THEN [result |-> "Error", projects |-> projects]
    ELSE IF ~ProjectIsValid(input)
    THEN [result |-> "ValidationError", projects |-> projects]
    ELSE LET owner == users[input.ownerId]
             data == [title |-> input.title, description |-> input.description,
                      stage |-> input.stage, industry |-> input.industry,
                      ownerId |-> input.ownerId,
                      teamMembers |-> <<Member(owner.id, Founder)>>]
         IN  [result |-> "ok",
              projects |-> MapSet(projects, ProjectId(projectSeq + 1),
                                  ProjectCreate(ProjectId(projectSeq + 1), data))]

\* UpdateProjectUseCase.execute
UpdateProjectOutcome(projectId, updateData, requesterId) ==
    IF projectId \notin DOMAIN projects
    THEN [result |-> "NotFoundError", projects |-> projects]
    ELSE IF projects[projectId].ownerId # requesterId
    THEN [result |-> "AuthorizationError", projects |-> projects]
    ELSE [result |-> "ok",
          projects |-> MapSet(projects, projectId,
                              ProjectUpdate(projects[projectId], updateData))]

\* UpdateProjectStageUseCase.execute with Project.updateStage
UpdateProjectStageOutcome(projectId, newStage, requesterId) ==
    IF projectId \notin DOMAIN projects
    THEN [result |-> "NotFoundError", projects |-> projects]
    ELSE IF projects[projectId].ownerId # requesterId
    THEN [result |-> "AuthorizationError", projects |-> projects]
    ELSE IF newStage \notin STAGES
    THEN [result |-> "Error", projects |-> projects]
    ELSE [result |-> "ok",
          projects |-> MapSet(projects, projectId,
                              [projects[projectId] EXCEPT !.stage = newStage])]

\* AddTeamMemberUseCase.execute
AddTeamMemberOutcome(projectId, memberId, role, requesterId) ==
    IF projectId \notin DOMAIN projects
    THEN [result |-> "NotFoundError", projects |-> projects]
    ELSE IF projects[projectId].ownerId # requesterId
    THEN [result |-> "AuthorizationError", projects |-> projects]
    ELSE IF ~UserExists(memberId)
    THEN [result |-> "NotFoundError", projects |-> projects]
    ELSE IF ~CanAddTeamMember(projects[projectId], Member(memberId, role))
    THEN [result |-> "Error", projects |-> projects]
    ELSE [result |-> "ok",
          projects |-> MapSet(projects, projectId,
                              ProjectAddTeamMember(projects[projectId],
                                                   Member(memberId, role)))]

\* RemoveTeamMemberUseCase.execute as it would be if it authorized everybody
RemoveTeamMemberOutcomeAnyone(projectId, memberId, requesterId) ==
    IF projectId \notin DOMAIN projects
    THEN [result |-> "NotFoundError", projects |-> projects]
    ELSE LET project == projects[projectId]
         IN  IF memberId = project.ownerId
             THEN [result |-> "ValidationError", projects |-> projects]
             ELSE IF ~CanRemoveTeamMember(project, memberId)
             THEN [result |-> "Error", projects |-> projects]
             ELSE [result |-> "ok",
                   projects |-> MapSet(projects, projectId,
                                       ProjectRemoveTeamMember(project, memberId))]

\* RemoveTeamMemberUseCase.execute
RemoveTeamMemberOutcome(projectId, memberId, requesterId) ==
    IF projectId \notin DOMAIN projects
    THEN [result |-> "NotFoundError", projects |-> projects]
    ELSE LET project == projects[projectId]
             isOwner == project.ownerId = requesterId
             isSelf == memberId = requesterId
         IN  IF ~isOwner /\ ~isSelf
             THEN [result |-> "AuthorizationError", projects |-> projects]
             ELSE IF memberId = project.ownerId
             THEN [result |-> "ValidationError", projects |-> projects]
             ELSE IF ~CanRemoveTeamMember(project, memberId)
             THEN [result |-> "Error", projects |-> projects]
             ELSE [result |-> "ok",
                   projects |-> MapSet(projects, projectId,
                                       ProjectRemoveTeamMember(project, memberId))]

\* deleteByProjectId as it would be if it deleted nothing
DeleteByProjectIdNone(projectId) == applications

\* InMemoryApplicationRepository.deleteByProjectId
DeleteByProjectId(projectId) ==
    [id \in {a \in DOMAIN applications : applications[a].projectId # projectId}
        |-> applications[id]]

\* DeleteProjectUseCase.execute as it would be if anybody could delete
DeleteProjectOutcomeAnyone(projectId, requesterId) ==
    IF projectId \notin DOMAIN projects
    THEN [result |-> "NotFoundError", projects |-> projects,
          applications |-> applications]
    ELSE [result |-> "ok", projects |-> MapDelete(projects, projectId),
          applications |-> DeleteByProjectId(projectId)]

\* DeleteProjectUseCase.execute, constructed with an application repository
DeleteProjectOutcome(projectId, requesterId) ==
    IF projectId \notin DOMAIN projects
    THEN [result |-> "NotFoundError", projects |-> projects,
          applications |-> applications]
    ELSE IF projects[projectId].ownerId # requesterId
    THEN [result |-> "AuthorizationError", projects |-> projects,
          applications |-> applications]
    ELSE [result |-> "ok", projects |-> MapDelete(projects, projectId),
          applications |-> DeleteByProjectId(projectId)]

-----------------------------------------------------------------------------
(* Application entity and InMemoryApplicationRepository *)

\* IsPending as it would be if the status were not looked at
IsPendingAlways(application) == TRUE

\* Application.isPending
IsPending(application) == application.status = PENDING

\* Application.accept as it would be if it did not record the reviewer
ApplicationAcceptNoReviewer(application, reviewerId) ==
    [application EXCEPT !.status = ACCEPTED, !.reviewedAt = Now]

\* Application.accept, on a pending application
ApplicationAccept(application, reviewerId) ==
    [application EXCEPT !.status = ACCEPTED, !.reviewedAt = Now,
                        !.reviewedBy = reviewerId]

\* Application.reject, on a pending application
ApplicationReject(application, reviewerId) ==
    [application EXCEPT !.status = REJECTED, !.reviewedAt = Now,
                        !.reviewedBy = reviewerId]

\* Application.withdraw, on a pending application
ApplicationWithdraw(application) == [application EXCEPT !.status = WITHDRAWN]

\* Application.validate, on applicantId, projectId and position
ApplicationIsValid(data) ==
    /\ data.applicantId # 0
    /\ data.projectId # 0
    /\ Truthy(data.position)
    /\ Len(Trim(data.position)) # 0

\* exists as it would be if only pending applications counted
ApplicationExistsPendingOnly(applicantId, projectId) ==
    \E id \in DOMAIN applications :
        /\ applications[id].applicantId = applicantId
        /\ applications[id].projectId = projectId
        /\ applications[id].status = PENDING

\* exists as it would be if it compared the applicant with the project id
ApplicationExistsNever(applicantId, projectId) ==
    \E id \in DOMAIN applications :
        /\ applications[id].applicantId = projectId
        /\ applications[id].projectId = applicantId
        /\ applications[id].status # WITHDRAWN

\* InMemoryApplicationRepository.exists
ApplicationExists(applicantId, projectId) ==
    \E id \in DOMAIN applications :
        /\ applications[id].applicantId = applicantId
        /\ applications[id].projectId = projectId
        /\ applications[id].status # WITHDRAWN

\* new Application({...}) of CreateApplicationUseCase.execute
NewApplication(id, input) ==
    [id |-> id, applicantId |-> input.applicantId, projectId |-> input.projectId,
     position |-> input.position, status |-> PENDING,
     reviewedAt |-> NoTime, reviewedBy |-> 0]

\* CreateApplicationUseCase.execute
CreateApplicationOutcome(input) ==
    IF ~ApplicationIsValid(input)
    THEN [result |-> "ValidationError", applications |-> applications,
          projects |-> projects]
    ELSE IF input.projectId \notin DOMAIN projects
    THEN [result |-> "NotFoundError", applications |-> applications,
          projects |-> projects]
    ELSE IF ~UserExists(input.applicantId)
    THEN [result |-> "NotFoundError", applications |-> applications,
          projects |-> projects]
    ELSE IF \/ IsTeamMember(projects[input.projectId], input.applicantId)
            \/ IsOwner(projects[input.projectId], input.applicantId)
    THEN [result |-> "ConflictError", applications |-> applications,
          projects |-> projects]
    ELSE IF ApplicationExists(input.applicantId, input.projectId)
    THEN [result |-> "ConflictError", applications |-> applications,
          projects |-> projects]
    ELSE [result |-> "ok",
          applications |-> MapSet(applications, ApplicationId(applicationSeq + 1),
                                  NewApplication(ApplicationId(applicationSeq + 1), input)),
          projects |-> MapSet(projects, input.projectId,
                              IncrementApplications(projects[input.projectId]))]

\* AcceptApplicationUseCase.execute: the application is stored as accepted
\* before InMemoryProjectRepository.addTeamMember runs, which throws when the
\* applicant is on the team already
AcceptApplicationOutcome(applicationId, reviewerId) ==
    IF applicationId \notin DOMAIN applications
    THEN [result |-> "NotFoundError", applications |-> applications,
          projects |-> projects]
    ELSE LET application == applications[applicationId]
         IN  IF application.projectId \notin DOMAIN projects
             THEN [result |-> "NotFoundError", applications |-> applications,
                   projects |-> projects]
             ELSE IF ~IsOwner(projects[application.projectId], reviewerId)
             THEN [result |-> "ForbiddenError", applications |-> applications,
                   projects |-> projects]
             ELSE IF ~IsPending(application)
             THEN [result |-> "ConflictError", applications |-> applications,
                   projects |-> projects]
             ELSE IF ~UserExists(application.applicantId)
             THEN [result |-> "NotFoundError", applications |-> applications,
                   projects |-> projects]
             ELSE LET project == projects[application.projectId]
                      member == Member(application.applicantId, application.position)
                      updated == MapSet(applications, applicationId,
                                        ApplicationAccept(application, reviewerId))
                  IN  IF ~CanAddTeamMember(project, member)
                      THEN [result |-> "Error", applications |-> updated,
                            projects |-> projects]
                      ELSE [result |-> "ok", applications |-> updated,
                            projects |-> MapSet(projects, project.id,
                                                ProjectAddTeamMember(project, member))]

\* RejectApplicationUseCase.execute
RejectApplicationOutcome(applicationId, reviewerId) ==
    IF applicationId \notin DOMAIN applications
    THEN [result |-> "NotFoundError", applications |-> applications]
    ELSE LET application == applications[applicationId]
         IN  IF application.projectId \notin DOMAIN projects
             THEN [result |-> "NotFoundError", applications |-> applications]
             ELSE IF ~IsOwner(projects[application.projectId], reviewerId)
             THEN [result |-> "ForbiddenError", applications |-> applications]
             ELSE IF ~IsPending(application)
             THEN [result |-> "ConflictError", applications |-> applications]
             ELSE [result |-> "ok",
                   applications |-> MapSet(applications, applicationId,
                                           ApplicationReject(application, reviewerId))]

\* WithdrawApplicationUseCase.execute
WithdrawApplicationOutcome(applicationId, applicantId) ==
    IF applicationId \notin DOMAIN applications
    THEN [result |-> "NotFoundError", applications |-> applications]
    ELSE LET application == applications[applicationId]
         IN  IF application.applicantId # applicantId
             THEN [result |-> "ForbiddenError", applications |-> applications]
             ELSE IF ~IsPending(application)
             THEN [result |-> "ConflictError", applications |-> applications]
             ELSE [result |-> "ok",
                   applications |-> MapSet(applications, applicationId,
                                           ApplicationWithdraw(application))]

\* DeleteApplicationUseCase.execute
DeleteApplicationOutcome(applicationId, userId) ==
    IF applicationId \notin DOMAIN applications
    THEN [result |-> "NotFoundError", applications |-> applications]
    ELSE IF applications[applicationId].applicantId # userId
    THEN [result |-> "ForbiddenError", applications |-> applications]
    ELSE [result |-> "ok", applications |-> MapDelete(applications, applicationId)]

-----------------------------------------------------------------------------
(* Arguments of the use-case executions *)

\* ids that callers pass: the owner and the other member of sample project
\* 'proj_2', and every user id generated so far
Actors == {2, 3} \cup {UserId(n) : n \in 1..userSeq}

\* application ids that callers pass: every id generated so far and one that
\* no application has
ApplicationIds == {ApplicationId(n) : n \in 1..(applicationSeq + 1)}

NameBo == <<"B", "o">>

NameInputs == {NameBo, <<" ", "A", "l">>, <<"B">>, <<>>}

\* the address the n-th registration of a workflow uses: 'a@d.c', 'b@d.c', ...
GenEmail(n) == <<LowerCase[n], "@", "d", ".", "c">>

EmailInputs ==
    {GenEmail(1), GenEmail(2),
     <<"A", "@", "D", ".", "c">>,
     <<" ", "a", "@", "d", ".", "c", " ">>,
     <<"a", "@", "d">>,
     <<>>}

\* every registration request: names and addresses of all kinds
AllUserData == {[name |-> n, email |-> e] : n \in NameInputs, e \in EmailInputs}

NamePw == <<"P", "w">>

Secret == <<"s", "e", "c", "r", "e", "t">>

\* a registration that submits a password
SecretUserData == {[name |-> NamePw, email |-> GenEmail(2), password |-> Secret]}

\* the userData of the UpdateUser requests: a new name, a new address in
\* capitals, both with a password; an address that is not valid; the first
\* address
UpdateUserInputs ==
    {[name |-> <<" ", "A", "l">>, email |-> Undefined, password |-> Secret],
     [name |-> Undefined, email |-> <<"B", "@", "D", ".", "c">>, password |-> Secret],
     [name |-> Undefined, email |-> <<"a", "@", "d">>],
     [name |-> Undefined, email |-> GenEmail(1)]}

\* the profileData of the UpdateUserProfile requests
ProfileData == [bio |-> <<"h", "i">>, password |-> Secret]

\* the registrations of the workflows: a valid name, a fresh address each time
\* and the first address again
WorkflowUserData ==
    {[name |-> NameBo, email |-> GenEmail(userSeq + 1)],
     [name |-> NameBo, email |-> GenEmail(1)]}

Engineer == <<"E", "n", "g", "i", "n", "e", "e", "r">>

PositionInputs == {Engineer, <<" ">>}

TitleApp == <<"A", "p", "p">>

TitleNew == <<"N", "e", "w", " ">>

DescriptionOk == <<"A", " ", "t", "e", "a", "m", " ", "a", "p", "p">>

Industry == <<"T", "e", "c", "h">>

\* ids of the projects that callers pass: sample project 'proj_2' and every
\* project id generated so far
ProjectIds == {2} \cup {ProjectId(n) : n \in 1..projectSeq}

\* the project ids generated so far
CreatedProjectIds == {ProjectId(n) : n \in 1..projectSeq}

\* the CreateProject requests: any caller as the owner, two titles that pass
\* validation and one that is too short
WorkflowProjects ==
    {[title |-> t, description |-> DescriptionOk, stage |-> NoStage,
      industry |-> Industry, ownerId |-> o] :
        t \in {TitleApp, TitleNew, <<"A", "p">>}, o \in Actors}

\* the updateData of the UpdateProject requests: a new title to be trimmed,
\* a new stage
UpdateInputs ==
    {[title |-> TitleNew, description |-> Undefined, stage |-> NoStage],
     [title |-> Undefined, description |-> Undefined, stage |-> "growth"]}

\* every kind of updateData: also a title of one character with a stage that
\* is not in the enumeration
AllUpdateInputs ==
    UpdateInputs
        \cup {[title |-> <<"X">>, description |-> Undefined, stage |-> "launched"]}

\* every kind of CreateProject request: also a title in other case with white
\* space around it, and a stage that is not in the enumeration
AllProjects ==
    WorkflowProjects
        \cup {[title |-> <<" ", "a", "p", "p">>, description |-> DescriptionOk,
               stage |-> NoStage, industry |-> Industry, ownerId |-> o] :
                  o \in Actors}
        \cup {[title |-> TitleNew, description |-> DescriptionOk,
               stage |-> "launched", industry |-> Industry, ownerId |-> o] :
                  o \in Actors}

StageInputs == {"scaling", "launched"}

\* what `last` records of one execution: the use case, how it ended ("ok" or
\* the name or code of the error thrown), for CreateUser its arguments, and
\* for DeleteProject the count deleteByProjectId returned
Call(op, result, name, email, count) ==
    [op |-> op, result |-> result, name |-> name, email |-> email, count |-> count]

-----------------------------------------------------------------------------
(* One action per use case; the parameters are the sets the arguments of an  *)
(* execution are drawn from                                                  *)

CreateUser(inputs) ==
    \E userData \in inputs :
        LET out == CreateUserOutcome(userData)
        IN  /\ out.result = "ok" => userSeq < MaxUsers
            /\ users' = out.users
            /\ userSeq' = IF out.result = "ok" THEN userSeq + 1 ELSE userSeq
            /\ last' = Call("CreateUser", out.result, userData.name, userData.email, 0)
            /\ UNCHANGED <<projects, applications, projectSeq, applicationSeq, tasks, others>>

UpdateUser(inputs) ==
    \E id \in Actors, userData \in inputs :
        LET out == UpdateUserOutcome(id, userData)
        IN  /\ users' = out.users
            /\ last' = Call("UpdateUser", out.result, userData.name, userData.email, 0)
            /\ UNCHANGED <<projects, applications, userSeq, projectSeq, applicationSeq, tasks, others>>

UpdateUserProfile(inputs) ==
    \E id \in Actors, profileData \in inputs :
        LET out == UpdateUserProfileOutcome(id, profileData)
        IN  /\ users' = out.users
            /\ last' = Call("UpdateUserProfile", out.result, <<>>, <<>>, 0)
            /\ UNCHANGED <<projects, applications, userSeq, projectSeq, applicationSeq, tasks, others>>

DeleteUser ==
    \E id \in Actors :
        LET out == DeleteUserOutcome(id)
        IN  /\ users' = out.users
            /\ last' = Call("DeleteUser", out.result, <<>>, <<>>, 0)
            /\ UNCHANGED <<projects, applications, userSeq, projectSeq, applicationSeq, tasks, others>>

CreateProject(inputs) ==
    \E input \in inputs :
        LET out == CreateProjectOutcome(input)
        IN  /\ out.result = "ok" => projectSeq < MaxProjects
            /\ projects' = out.projects
            /\ projectSeq' = IF out.result = "ok" THEN projectSeq + 1 ELSE projectSeq
            /\ last' = Call("CreateProject", out.result, <<>>, <<>>, 0)
            /\ UNCHANGED <<users, applications, userSeq, applicationSeq, tasks, others>>

UpdateProject(targets, inputs) ==
    \E projectId \in targets, updateData \in inputs, requesterId \in Actors :
        LET out == UpdateProjectOutcome(projectId, updateData, requesterId)
        IN  /\ projects' = out.projects
            /\ last' = Call("UpdateProject", out.result, <<>>, <<>>, 0)
            /\ UNCHANGED <<users, applications, userSeq, projectSeq, applicationSeq, tasks, others>>

UpdateProjectStage(targets) ==
    \E projectId \in targets, newStage \in StageInputs, requesterId \in Actors :
        LET out == UpdateProjectStageOutcome(projectId, newStage, requesterId)
        IN  /\ projects' = out.projects
            /\ last' = Call("UpdateProjectStage", out.result, <<>>, <<>>, 0)
            /\ UNCHANGED <<users, applications, userSeq, projectSeq, applicationSeq, tasks, others>>

AddTeamMember(targets) ==
    \E projectId \in targets, memberId \in Actors, requesterId \in Actors :
        LET out == AddTeamMemberOutcome(projectId, memberId, Designer, requesterId)
        IN  /\ projects' = out.projects
            /\ last' = Call("AddTeamMember", out.result, <<>>, <<>>, 0)
            /\ UNCHANGED <<users, applications, userSeq, projectSeq, applicationSeq, tasks, others>>

RemoveTeamMember(targets) ==
    \E projectId \in targets, memberId \in Actors, requesterId \in Actors :
        LET out == RemoveTeamMemberOutcome(projectId, memberId, requesterId)
        IN  /\ projects' = out.projects
            /\ last' = Call("RemoveTeamMember", out.result, <<>>, <<>>, 0)
            /\ UNCHANGED <<users, applications, userSeq, projectSeq, applicationSeq, tasks, others>>

DeleteProject(targets) ==
    \E projectId \in targets, requesterId \in Actors :
        LET out == DeleteProjectOutcome(projectId, requesterId)
        IN  /\ projects' = out.projects
            /\ applications' = out.applications
            /\ last' = Call("DeleteProject", out.result, <<>>, <<>>,
                            Cardinality(DOMAIN applications \ DOMAIN out.applications))
            /\ UNCHANGED <<users, userSeq, projectSeq, applicationSeq, tasks, others>>

CreateApplication(targets, maxApplications) ==
    \E applicantId \in Actors \cup {0}, projectId \in targets,
       position \in PositionInputs :
        LET out == CreateApplicationOutcome([applicantId |-> applicantId,
                                             projectId |-> projectId,
                                             position |-> position])
        IN  /\ out.result = "ok" => applicationSeq < maxApplications
            /\ applications' = out.applications
            /\ projects' = out.projects
            /\ applicationSeq' =
                   IF out.result = "ok" THEN applicationSeq + 1 ELSE applicationSeq
            /\ last' = Call("CreateApplication", out.result, <<>>, <<>>, 0)
            /\ UNCHANGED <<users, userSeq, projectSeq, tasks, others>>

AcceptApplication ==
    \E applicationId \in ApplicationIds, reviewerId \in Actors :
        LET out == AcceptApplicationOutcome(applicationId, reviewerId)
        IN  /\ applications' = out.applications
            /\ projects' = out.projects
            /\ last' = Call("AcceptApplication", out.result, <<>>, <<>>, 0)
            /\ UNCHANGED <<users, userSeq, projectSeq, applicationSeq, tasks, others>>

RejectApplication ==
    \E applicationId \in ApplicationIds, reviewerId \in Actors :
        LET out == RejectApplicationOutcome(applicationId, reviewerId)
        IN  /\ applications' = out.applications
            /\ last' = Call("RejectApplication", out.result, <<>>, <<>>, 0)
            /\ UNCHANGED <<users, projects, userSeq, projectSeq, applicationSeq, tasks, others>>

WithdrawApplication ==
    \E applicationId \in ApplicationIds, applicantId \in Actors :
        LET out == WithdrawApplicationOutcome(applicationId, applicantId)
        IN  /\ applications' = out.applications
            /\ last' = Call("WithdrawApplication", out.result, <<>>, <<>>, 0)
            /\ UNCHANGED <<users, projects, userSeq, projectSeq, applicationSeq, tasks, others>>

DeleteApplication ==
    \E applicationId \in ApplicationIds, userId \in Actors :
        LET out == DeleteApplicationOutcome(applicationId, userId)
        IN  /\ applications' = out.applications
            /\ last' = Call("DeleteApplication", out.result, <<>>, <<>>, 0)
            /\ UNCHANGED <<users, projects, userSeq, projectSeq, applicationSeq, tasks, others>>

-----------------------------------------------------------------------------
(***************************************************************************)
(* The application workflow on sample project 'proj_2': users register and *)
(* apply; the applications are accepted, rejected, withdrawn or deleted;   *)
(* the project is deleted.                                                 *)
(***************************************************************************)

Next ==
    \/ CreateUser(WorkflowUserData)
    \/ CreateApplication({2}, MaxApplications)
    \/ AcceptApplication
    \/ RejectApplication
    \/ WithdrawApplication
    \/ DeleteApplication
    \/ DeleteProject({2})

Spec == Init /\ [][Next]_vars

-----------------------------------------------------------------------------
(***************************************************************************)
(* The team workflow: users register, create projects and update them;     *)
(* owners add and remove team members; users apply and are accepted.       *)
(***************************************************************************)

NextTeam ==
    \/ CreateUser({[name |-> NameBo, email |-> GenEmail(1)]})
    \/ CreateProject(WorkflowProjects)
    \/ UpdateProject(CreatedProjectIds, UpdateInputs)
    \/ UpdateProjectStage(CreatedProjectIds)
    \/ AddTeamMember(ProjectIds)
    \/ RemoveTeamMember(ProjectIds)
    \/ CreateApplication(ProjectIds, MaxTeamApplications)
    \/ AcceptApplication

SpecTeam == Init /\ [][NextTeam]_vars

-----------------------------------------------------------------------------
(* Properties of the application workflow *)

Terminal == {ACCEPTED, REJECTED, WITHDRAWN}

\* every id a caller may present, the missing id included
AnyCaller == Actors \cup {0}

\* a position that Application.validate accepts
IsPosition(position) ==
    /\ position # Undefined
    /\ \E i \in DOMAIN position : ~IsSpace(position[i])

\* the project's entry for the user with that role
OnTeamAs(project, userId, role) ==
    \E i \in DOMAIN project.teamMembers :
        project.teamMembers[i] = Member(userId, role)

\* accept, reject and withdraw all fail on the application and store nothing
RefusesAll(id) ==
    \A caller \in AnyCaller :
        /\ AcceptApplicationOutcome(id, caller).result # "ok"
        /\ AcceptApplicationOutcome(id, caller).applications = applications
        /\ RejectApplicationOutcome(id, caller).result # "ok"
        /\ RejectApplicationOutcome(id, caller).applications = applications
        /\ WithdrawApplicationOutcome(id, caller).result # "ok"
        /\ WithdrawApplicationOutcome(id, caller).applications = applications

\* C1: in every step, a stored application's status changes only from
\* pending to accepted, rejected or withdrawn, and on an application whose
\* status is accepted, rejected or withdrawn every accept, reject and
\* withdraw, by any caller, fails and leaves it as it is.
StatusOneShot ==
    [][/\ \A id \in DOMAIN applications \cap DOMAIN applications' :
              applications'[id].status # applications[id].status
                  => /\ applications[id].status = PENDING
                     /\ applications'[id].status \in Terminal
       /\ \A id \in DOMAIN applications :
              applications[id].status \in Terminal => RefusesAll(id)]_vars

\* C1 witness: a reject was refused on an application already accepted
RefusedAfterAccept ==
    /\ last.op = "RejectApplication"
    /\ last.result = "ConflictError"
    /\ \A id \in DOMAIN applications : applications[id].status = ACCEPTED
    /\ applications # EmptyMap

\* C3: the repository holds at most one application with a status other
\* than withdrawn for every (applicantId, projectId) pair.
OneLiveApplicationPerPair ==
    \A a, b \in DOMAIN applications :
        /\ applications[a].applicantId = applications[b].applicantId
        /\ applications[a].projectId = applications[b].projectId
        /\ applications[a].status # WITHDRAWN
        /\ applications[b].status # WITHDRAWN
        => a = b

\* C3 witness: a user applied again after withdrawing, so the pair has two
\* stored applications, and a further CreateApplication has been refused
ReappliedAfterWithdraw ==
    /\ last.op = "CreateApplication"
    /\ last.result = "ConflictError"
    /\ \E a, b \in DOMAIN applications :
        /\ a # b
        /\ applications[a].applicantId = applications[b].applicantId
        /\ applications[a].projectId = applications[b].projectId
        /\ applications[a].status = WITHDRAWN
        /\ applications[b].status = PENDING

\* C4: an AcceptApplication that succeeds on a pending application stores it
\* with status accepted, reviewedBy the reviewer and reviewedAt set, and
\* leaves the project with an entry for the applicant whose role is the
\* application's position.
AcceptEffect ==
    \A id \in DOMAIN applications, reviewerId \in AnyCaller :
        LET out == AcceptApplicationOutcome(id, reviewerId)
            before == applications[id]
        IN  before.status = PENDING /\ out.result = "ok"
            => /\ id \in DOMAIN out.applications
               /\ out.applications[id].status = ACCEPTED
               /\ out.applications[id].reviewedBy = reviewerId
               /\ out.applications[id].reviewedAt # NoTime
               /\ before.projectId \in DOMAIN out.projects
               /\ OnTeamAs(out.projects[before.projectId], before.applicantId,
                           before.position)

\* C4 witness: an accept has succeeded and the applicant is on the team
AcceptedOnTeam ==
    /\ last.op = "AcceptApplication"
    /\ last.result = "ok"
    /\ \E id \in DOMAIN applications :
        /\ applications[id].status = ACCEPTED
        /\ applications[id].reviewedBy = 2
        /\ applications[id].reviewedAt = Now
        /\ OnTeamAs(projects[2], applications[id].applicantId, Engineer)

(***************************************************************************)
(* Applicants who leave: users register, apply to sample project 'proj_2', *)
(* withdraw or are rejected, and are deleted while their applications stay *)
(* stored.                                                                 *)
(***************************************************************************)

NextLeave ==
    \/ CreateUser(WorkflowUserData)
    \/ DeleteUser
    \/ CreateApplication({2}, MaxApplications)
    \/ WithdrawApplication
    \/ RejectApplication

SpecLeave == Init /\ [][NextLeave]_vars

\* every successful CreateApplication raises the project's counter by one
SuccessCountsOnce ==
    \A applicantId \in AnyCaller, projectId \in DOMAIN projects,
       position \in PositionInputs :
        LET out == CreateApplicationOutcome([applicantId |-> applicantId,
                                             projectId |-> projectId,
                                             position |-> position])
        IN  out.result = "ok"
            => /\ projectId \in DOMAIN out.projects
               /\ out.projects[projectId].applications
                      = projects[projectId].applications + 1
               /\ Cardinality(DOMAIN out.applications)
                      = Cardinality(DOMAIN applications) + 1

\* C5 as claimed: a CreateApplication for a pair that has a stored
\* non-withdrawn application fails with a ConflictError, stores nothing and
\* leaves the counter unchanged; every success raises the counter by one.
DuplicateApplicationIsConflict ==
    /\ \A id \in DOMAIN applications, position \in PositionInputs :
          LET app == applications[id]
              out == CreateApplicationOutcome([applicantId |-> app.applicantId,
                                               projectId |-> app.projectId,
                                               position |-> position])
          IN  app.status # WITHDRAWN
              => /\ out.result = "ConflictError"
                 /\ out.applications = applications
                 /\ out.projects = projects
    /\ SuccessCountsOnce

\* C5 amended: such a CreateApplication fails, stores nothing and leaves the
\* counter unchanged; the error is a ConflictError when the input passes
\* validation and the project and the applicant are stored, and a
\* ValidationError or NotFoundError otherwise; every success raises the
\* counter by one.
DuplicateApplicationRefused ==
    /\ \A id \in DOMAIN applications, position \in PositionInputs :
          LET app == applications[id]
              out == CreateApplicationOutcome([applicantId |-> app.applicantId,
                                               projectId |-> app.projectId,
                                               position |-> position])
          IN  app.status # WITHDRAWN
              => /\ out.result \in {"ConflictError", "ValidationError", "NotFoundError"}
                 /\ out.applications = applications
                 /\ out.projects = projects
                 /\ (/\ IsPosition(position)
                     /\ app.projectId \in DOMAIN projects
                     /\ app.applicantId \in DOMAIN users)
                        <=> out.result = "ConflictError"
    /\ SuccessCountsOnce

\* C5 witness: a second application for the pair has been refused as a
\* conflict while the first is still pending
DuplicateRefused ==
    /\ last.op = "CreateApplication"
    /\ last.result = "ConflictError"
    /\ \E id \in DOMAIN applications : applications[id].status = PENDING
    /\ \A id \in DOMAIN projects : ~\E u \in DOMAIN users : OnTeamAs(projects[id], u, Engineer)

OnlyOwnerReviewsOnlyApplicantWithdraws ==
    \A id \in DOMAIN applications, caller \in AnyCaller :
        LET app == applications[id]
            accept == AcceptApplicationOutcome(id, caller)
            reject == RejectApplicationOutcome(id, caller)
            withdraw == WithdrawApplicationOutcome(id, caller)
        IN  /\ app.projectId \in DOMAIN projects
            /\ accept.result = "ok" => caller = projects[app.projectId].ownerId
            /\ reject.result = "ok" => caller = projects[app.projectId].ownerId
            /\ withdraw.result = "ok" => caller = app.applicantId
            /\ caller # projects[app.projectId].ownerId
                   => /\ accept.result = "ForbiddenError"
                      /\ accept.applications = applications
                      /\ accept.projects = projects
                      /\ reject.result = "ForbiddenError"
                      /\ reject.applications = applications
            /\ caller # app.applicantId
                   => /\ withdraw.result = "ForbiddenError"
                      /\ withdraw.applications = applications

\* C9 witness: an accept by someone who is not the owner has been refused
\* while the application is pending
ForbiddenReview ==
    /\ last.op = "AcceptApplication"
    /\ last.result = "ForbiddenError"
    /\ \E id \in DOMAIN applications : applications[id].status = PENDING

-----------------------------------------------------------------------------
(* Properties of the team workflow *)

\* the user has an entry in the project's teamMembers
OnTeam(project, userId) ==
    \E i \in DOMAIN project.teamMembers : project.teamMembers[i].id = userId

\* C2: an AcceptApplication that ends with an error leaves the stored
\* applications and every project's teamMembers exactly as they were, also
\* when the applicant of a pending application is on the team already.
FailedAcceptChangesNothing ==
    \A id \in ApplicationIds, reviewerId \in AnyCaller :
        LET out == AcceptApplicationOutcome(id, reviewerId)
        IN  out.result # "ok"
            => /\ out.applications = applications
               /\ \A p \in DOMAIN projects :
                      /\ p \in DOMAIN out.projects
                      /\ out.projects[p].teamMembers = projects[p].teamMembers

\* C6: every stored project's teamMembers has an entry whose id is the
\* project's ownerId, and every RemoveTeamMember of the owner, whoever asks,
\* fails and leaves the projects as they are.
OwnerStaysOnTeam ==
    /\ \A p \in DOMAIN projects : OnTeam(projects[p], projects[p].ownerId)
    /\ \A p \in DOMAIN projects, requesterId \in AnyCaller :
          LET out == RemoveTeamMemberOutcome(p, projects[p].ownerId, requesterId)
          IN  /\ out.result # "ok"
              /\ out.projects = projects

\* C6 witness: the owner of a created project, which has gained a second team
\* member, was asked to be removed and the use case refused
OwnerRemovalRefused ==
    /\ last.op = "RemoveTeamMember"
    /\ last.result = "ValidationError"
    /\ \E p \in CreatedProjectIds :
        /\ p \in DOMAIN projects
        /\ projects[p].teamMembers[1] = Member(projects[p].ownerId, Founder)
    /\ Len(projects[2].teamMembers) > 2

\* C10 as claimed: a CreateApplication by the project's owner or by somebody
\* with an entry in its teamMembers fails with a ConflictError, stores no
\* application and leaves the counter unchanged.
MemberApplicationIsConflict ==
    \A applicantId \in AnyCaller, p \in DOMAIN projects, position \in PositionInputs :
        LET out == CreateApplicationOutcome([applicantId |-> applicantId,
                                             projectId |-> p,
                                             position |-> position])
        IN  projects[p].ownerId = applicantId \/ OnTeam(projects[p], applicantId)
            => /\ out.result = "ConflictError"
               /\ out.applications = applications
               /\ out.projects = projects

\* C10 amended: such a CreateApplication fails, stores no application and
\* leaves the counter unchanged; the error is a ConflictError when the input
\* passes validation and the applicant is a stored user, and a
\* ValidationError or NotFoundError otherwise.
MemberApplicationRefused ==
    \A applicantId \in AnyCaller, p \in DOMAIN projects, position \in PositionInputs :
        LET out == CreateApplicationOutcome([applicantId |-> applicantId,
                                             projectId |-> p,
                                             position |-> position])
        IN  projects[p].ownerId = applicantId \/ OnTeam(projects[p], applicantId)
            => /\ out.result \in {"ConflictError", "ValidationError", "NotFoundError"}
               /\ out.applications = applications
               /\ out.projects = projects
               /\ (IsPosition(position) /\ applicantId \in DOMAIN users)
                      <=> out.result = "ConflictError"

\* C10 witness: a stored user who was added to the team of 'proj_2', and has
\* no application, has applied to a project and been refused as a conflict
MemberRefused ==
    /\ last.op = "CreateApplication"
    /\ last.result = "ConflictError"
    /\ applications = EmptyMap
    /\ \E u \in DOMAIN users : OnTeamAs(projects[2], u, Designer)

-----------------------------------------------------------------------------
(***************************************************************************)
(* Registration: users register under names and addresses of all kinds,    *)
(* with and without a password, are updated and are deleted.               *)
(***************************************************************************)

NextUser ==
    \/ CreateUser(AllUserData \cup SecretUserData)
    \/ UpdateUser(UpdateUserInputs)
    \/ UpdateUserProfile({ProfileData})
    \/ DeleteUser

SpecUser == Init /\ [][NextUser]_vars

\* the address is, ignoring case and surrounding white space, the address of
\* a stored user
IsStoredEmail(email) ==
    \E id \in DOMAIN users :
        Trim(ToLowerCase(users[id].email)) = Trim(ToLowerCase(email))

\* C8 as claimed: a CreateUser whose email is, ignoring case and surrounding
\* white space, the email of a stored user fails with EMAIL_EXISTS and leaves
\* the stored users unchanged.
DuplicateEmailIsEmailExists ==
    \A userData \in AllUserData :
        LET out == CreateUserOutcome(userData)
        IN  IsStoredEmail(userData.email)
            => /\ out.result = "EMAIL_EXISTS"
               /\ out.users = users

\* C8 amended: such a CreateUser fails and leaves the stored users unchanged;
\* the code is EMAIL_EXISTS when the request has a non-empty name, and
\* VALIDATION_ERROR when it has not.
DuplicateEmailRefused ==
    \A userData \in AllUserData :
        LET out == CreateUserOutcome(userData)
        IN  IsStoredEmail(userData.email)
            => /\ out.users = users
               /\ out.result =
                      IF userData.name # <<>> THEN "EMAIL_EXISTS" ELSE "VALIDATION_ERROR"

\* C8 witness: a registration under the stored address, typed in capitals,
\* has been refused with EMAIL_EXISTS
CapitalsRefused ==
    /\ last.op = "CreateUser"
    /\ last.result = "EMAIL_EXISTS"
    /\ last.email = <<"A", "@", "D", ".", "c">>
    /\ \E id \in DOMAIN users : users[id].email = GenEmail(1)

-----------------------------------------------------------------------------
(***************************************************************************)
(* Owners and strangers: a user registers, creates a project and applies   *)
(* to others; owners and other callers update, extend and delete projects. *)
(***************************************************************************)

NextOwner ==
    \/ CreateUser({[name |-> NameBo, email |-> GenEmail(1)]})
    \/ CreateProject(WorkflowProjects)
    \/ CreateApplication(ProjectIds, MaxTeamApplications)
    \/ UpdateProject(CreatedProjectIds, UpdateInputs)
    \/ UpdateProjectStage(CreatedProjectIds)
    \/ AddTeamMember(ProjectIds)
    \/ DeleteProject(ProjectIds)

SpecOwner == Init /\ [][NextOwner]_vars

\* C11: UpdateProject, DeleteProject, UpdateProjectStage and AddTeamMember
\* called on a stored project by a requester who is not its owner fail with
\* an AuthorizationError and leave the projects and the applications as they
\* are.
OnlyOwnerChangesProject ==
    \A p \in DOMAIN projects, requesterId \in AnyCaller :
        requesterId # projects[p].ownerId
        => /\ \A updateData \in UpdateInputs :
                  LET out == UpdateProjectOutcome(p, updateData, requesterId)
                  IN  out.result = "AuthorizationError" /\ out.projects = projects
           /\ LET out == DeleteProjectOutcome(p, requesterId)
              IN  /\ out.result = "AuthorizationError"
                  /\ out.projects = projects
                  /\ out.applications = applications
           /\ \A newStage \in StageInputs :
                  LET out == UpdateProjectStageOutcome(p, newStage, requesterId)
                  IN  out.result = "AuthorizationError" /\ out.projects = projects
           /\ \A memberId \in AnyCaller :
                  LET out == AddTeamMemberOutcome(p, memberId, Designer, requesterId)
                  IN  out.result = "AuthorizationError" /\ out.projects = projects

\* C11 witness: somebody who is not the owner asked to delete a project that
\* has an application, and was refused
StrangerDeleteRefused ==
    /\ last.op = "DeleteProject"
    /\ last.result = "AuthorizationError"
    /\ \E id \in DOMAIN applications : applications[id].projectId \in DOMAIN projects
    /\ CreatedProjectIds \cap DOMAIN projects # {}

-----------------------------------------------------------------------------
(***************************************************************************)
(* Projects of one founder: a user registers, creates projects under       *)
(* titles and stages of all kinds, updates and deletes them, and is        *)
(* deleted.                                                                *)
(***************************************************************************)

NextProject ==
    \/ CreateUser({[name |-> NameBo, email |-> GenEmail(1)]})
    \/ DeleteUser
    \/ CreateProject(AllProjects)
    \/ UpdateProject(CreatedProjectIds, AllUpdateInputs)
    \/ UpdateProjectStage(CreatedProjectIds)
    \/ DeleteProject(CreatedProjectIds)

SpecProject == Init /\ [][NextProject]_vars

\* the project's title, description and stage are within the limits of
\* Project.validate
WithinLimits(project) ==
    /\ Len(project.title) >= 3
    /\ Len(project.title) <= 100
    /\ Len(project.description) >= 10
    /\ Len(project.description) <= 2000
    /\ project.stage \in {"idea", "prototype", "mvp", "growth", "scaling"}

\* C13: every stored project has a title of 3 to 100 characters, a
\* description of 10 to 2000 characters and a stage of the enumeration, and
\* a CreateProject, UpdateProject or UpdateProjectStage that would store a
\* project outside these limits fails and stores nothing.
StoredProjectsWithinLimits ==
    /\ \A p \in DOMAIN projects : WithinLimits(projects[p])
    /\ \A p \in DOMAIN projects, updateData \in AllUpdateInputs :
          LET out == UpdateProjectOutcome(p, updateData, projects[p].ownerId)
          IN  \/ out.projects = projects /\ out.result # "ok"
              \/ \A q \in DOMAIN out.projects : WithinLimits(out.projects[q])
    /\ \A p \in DOMAIN projects, newStage \in StageInputs :
          LET out == UpdateProjectStageOutcome(p, newStage, projects[p].ownerId)
          IN  \/ out.projects = projects /\ out.result # "ok"
              \/ \A q \in DOMAIN out.projects : WithinLimits(out.projects[q])
    /\ \A input \in AllProjects :
          LET out == CreateProjectOutcome(input)
          IN  \/ out.projects = projects /\ out.result # "ok"
              \/ \A q \in DOMAIN out.projects : WithinLimits(out.projects[q])

\* C14: CreateProject fails and stores nothing whenever the owner has a
\* stored project whose title is, ignoring case, the title under which the
\* new project would be stored (the given title, trimmed); so no owner has
\* two stored projects with the same title ignoring case.
NoDuplicateTitles ==
    /\ \A input \in AllProjects :
          LET out == CreateProjectOutcome(input)
          IN  (\E p \in DOMAIN projects :
                  /\ projects[p].ownerId = input.ownerId
                  /\ ToLowerCase(projects[p].title) = ToLowerCase(Trim(input.title)))
              => /\ out.result # "ok"
                 /\ out.projects = projects
    /\ \A p, q \in DOMAIN projects :
          /\ projects[p].ownerId = projects[q].ownerId
          /\ ToLowerCase(projects[p].title) = ToLowerCase(projects[q].title)
          => p = q

\* C15: every stored project's ownerId is the id of a stored user, and
\* DeleteUser fails and deletes nothing while the user owns a project.
OwnersAreStoredUsers ==
    /\ \A p \in DOMAIN projects : projects[p].ownerId \in DOMAIN users
    /\ \A id \in DOMAIN users :
          (\E p \in DOMAIN projects : projects[p].ownerId = id)
          => /\ DeleteUserOutcome(id).result # "ok"
             /\ DeleteUserOutcome(id).users = users

\* C16: no record of the user repository and no value returned by CreateUser,
\* GetUserById, GetUserByEmail, GetAllUsers, UpdateUser, UpdateUserProfile,
\* DeleteUser, SearchUsers or FindUsersBySkills has a password field,
\* whatever password was submitted.
NoPasswordAnywhere ==
    /\ \A id \in DOMAIN users : "password" \notin DOMAIN users[id]
    /\ \A userData \in AllUserData \cup SecretUserData :
          LET out == CreateUserOutcome(userData)
          IN  /\ \A id \in DOMAIN out.users : "password" \notin DOMAIN out.users[id]
              /\ out.result = "ok" => "password" \notin DOMAIN out.value
    /\ \A id \in AnyCaller, userData \in UpdateUserInputs :
          LET out == UpdateUserOutcome(id, userData)
          IN  /\ \A u \in DOMAIN out.users : "password" \notin DOMAIN out.users[u]
              /\ out.result = "ok" => "password" \notin DOMAIN out.value
    /\ \A id \in AnyCaller :
          /\ LET out == UpdateUserProfileOutcome(id, ProfileData)
             IN  /\ \A u \in DOMAIN out.users : "password" \notin DOMAIN out.users[u]
                 /\ out.result = "ok" => "password" \notin DOMAIN out.value
          /\ LET out == GetUserByIdOutcome(id)
             IN  out.result = "ok" => "password" \notin DOMAIN out.value
          /\ LET out == DeleteUserOutcome(id)
             IN  out.result = "ok" => "password" \notin DOMAIN out.value
    /\ \A email \in EmailInputs :
          LET out == GetUserByEmailOutcome(email)
          IN  out.result = "ok" => "password" \notin DOMAIN out.value
    /\ \A ids \in SUBSET DOMAIN users :
          /\ \A value \in GetAllUsersValue(ids) : "password" \notin DOMAIN value
          /\ \A value \in PublicProfilesValue(ids) : "password" \notin DOMAIN value

\* C16 witness: a user who registered with a password is stored, and an
\* UpdateUser that submitted a password has succeeded
PasswordSubmitted ==
    /\ last.op = "UpdateUser"
    /\ last.result = "ok"
    /\ last.email = <<"B", "@", "D", ".", "c">>
    /\ \E id \in DOMAIN users :
        /\ users[id].name = NamePw
        /\ users[id].email = GenEmail(2)

-----------------------------------------------------------------------------
(***************************************************************************)
(* Executions that interleave.  An execution runs without interruption     *)
(* from one await to the next: a step of the model is the code from the    *)
(* point where an execution is called or resumed up to the next awaited    *)
(* repository call, that call's body included (the bodies of the in-memory *)
(* repositories await nothing).  tasks holds one record for each execution *)
(* that was called this way: the await it is suspended at (pc), its        *)
(* arguments and the values its local variables hold.                      *)
(***************************************************************************)

\* the number of executions that interleave
MaxTasks == 2

\* what findById returned when there is no such user, project or application
NullUser == [id |-> 0]

NullProject == [id |-> 0]

NullApplication == [id |-> 0]

\* an execution that has just been called
NewTask(op, pc, id, data) ==
    [op |-> op, pc |-> pc, id |-> id, data |-> data, found |-> 0,
     user |-> NullUser, project |-> NullProject, application |-> NullApplication,
     result |-> "none"]

\* the execution returns or throws
Finish(t, result) == [tasks EXCEPT ![t].pc = "done", ![t].result = result]

\* the executions of the use case suspended at the await
Suspended(op, pc) == {t \in DOMAIN tasks : tasks[t].op = op /\ tasks[t].pc = pc}

\* CreateUserUseCase.execute from the call to the awaited findByEmail
CreateUserCall(inputs) ==
    /\ Len(tasks) < MaxTasks
    /\ \E userData \in inputs :
        LET task == NewTask("CreateUser", "findByEmail", 0, userData)
        IN  IF ~Truthy(userData.name) \/ ~Truthy(userData.email)
            THEN /\ tasks' = Append(tasks, [task EXCEPT !.pc = "done",
                                                        !.result = "VALIDATION_ERROR"])
                 /\ last' = Call("CreateUser", "VALIDATION_ERROR", userData.name,
                                 userData.email, 0)
            ELSE /\ tasks' = Append(tasks,
                        [task EXCEPT !.found =
                                FindByEmail(Trim(ToLowerCase(userData.email)))])
                 /\ UNCHANGED last
    /\ UNCHANGED <<users, projects, applications, userSeq, projectSeq, applicationSeq, others>>

\* CreateUserUseCase.execute from the result of findByEmail to the awaited
\* create
CreateUserAfterFindByEmail ==
    \E t \in Suspended("CreateUser", "findByEmail") :
        LET userData == tasks[t].data
            user == UserCreate([name |-> userData.name, email |-> userData.email,
                                role |-> "user"])
            id == UserId(userSeq + 1)
        IN  /\ IF tasks[t].found # 0
               THEN /\ tasks' = Finish(t, "EMAIL_EXISTS")
                    /\ last' = Call("CreateUser", "EMAIL_EXISTS", userData.name,
                                    userData.email, 0)
                    /\ UNCHANGED <<users, userSeq>>
               ELSE IF ~UserIsValid(user)
               THEN /\ tasks' = Finish(t, "ValidationError")
                    /\ last' = Call("CreateUser", "ValidationError", userData.name,
                                    userData.email, 0)
                    /\ UNCHANGED <<users, userSeq>>
               ELSE /\ users' = MapSet(users, id, UserData(id, user))
                    /\ userSeq' = userSeq + 1
                    /\ tasks' = [tasks EXCEPT ![t].pc = "create", ![t].id = id]
                    /\ UNCHANGED last
            /\ UNCHANGED <<projects, applications, projectSeq, applicationSeq, others>>

\* CreateUserUseCase.execute from the result of create to the return
CreateUserAfterCreate ==
    \E t \in Suspended("CreateUser", "create") :
        /\ tasks' = Finish(t, "ok")
        /\ last' = Call("CreateUser", "ok", tasks[t].data.name, tasks[t].data.email, 0)
        /\ UNCHANGED <<users, projects, applications, userSeq, projectSeq,
                       applicationSeq, others>>

\* UpdateUserUseCase.execute from the call to the awaited findById
UpdateUserCall(inputs) ==
    /\ Len(tasks) < MaxTasks
    /\ \E id \in DOMAIN users, userData \in inputs :
        tasks' = Append(tasks,
                    [NewTask("UpdateUser", "findById", id, userData)
                        EXCEPT !.user = FromPersistence(users[id])])
    /\ UNCHANGED <<users, projects, applications, userSeq, projectSeq,
                   applicationSeq, last, others>>

\* user.update(userData) and the awaited userRepository.update(user) of
\* UpdateUserUseCase.execute
UpdateUserUpdate(t) ==
    LET userData == tasks[t].data
        updated == UserUpdate(tasks[t].user, userData)
    IN  IF ~UserIsValid(updated)
        THEN /\ tasks' = Finish(t, "ValidationError")
             /\ last' = Call("UpdateUser", "ValidationError", userData.name,
                             userData.email, 0)
             /\ UNCHANGED users
        ELSE IF ~UserExists(updated.id)
        THEN /\ tasks' = Finish(t, "Error")
             /\ last' = Call("UpdateUser", "Error", userData.name, userData.email, 0)
             /\ UNCHANGED users
        ELSE /\ users' = MapSet(users, updated.id, UpdatedUserData(updated))
             /\ tasks' = [tasks EXCEPT ![t].pc = "update"]
             /\ UNCHANGED last

\* UpdateUserUseCase.execute from the result of findById to the awaited
\* emailExists or, when the address does not change, to the awaited update
UpdateUserAfterFindById ==
    \E t \in Suspended("UpdateUser", "findById") :
        LET userData == tasks[t].data
            user == tasks[t].user
        IN  /\ IF /\ Truthy(userData.email)
                  /\ ToLowerCase(userData.email) # ToLowerCase(user.email)
               THEN /\ tasks' = [tasks EXCEPT
                            ![t].pc = "emailExists",
                            ![t].found =
                                IF EmailExists(Trim(ToLowerCase(userData.email)),
                                               tasks[t].id)
                                THEN 1 ELSE 0]
                    /\ UNCHANGED <<users, last>>
               ELSE UpdateUserUpdate(t)
            /\ UNCHANGED <<projects, applications, userSeq, projectSeq,
                           applicationSeq, others>>

\* UpdateUserUseCase.execute from the result of emailExists to the awaited
\* update
UpdateUserAfterEmailExists ==
    \E t \in Suspended("UpdateUser", "emailExists") :
        /\ IF tasks[t].found # 0
           THEN /\ tasks' = Finish(t, "EMAIL_EXISTS")
                /\ last' = Call("UpdateUser", "EMAIL_EXISTS", tasks[t].data.name,
                                tasks[t].data.email, 0)
                /\ UNCHANGED users
           ELSE UpdateUserUpdate(t)
        /\ UNCHANGED <<projects, applications, userSeq, projectSeq, applicationSeq, others>>

\* UpdateUserUseCase.execute from the result of update to the return
UpdateUserAfterUpdate ==
    \E t \in Suspended("UpdateUser", "update") :
        /\ tasks' = Finish(t, "ok")
        /\ last' = Call("UpdateUser", "ok", tasks[t].data.name, tasks[t].data.email, 0)
        /\ UNCHANGED <<users, projects, applications, userSeq, projectSeq,
                       applicationSeq, others>>

\* the registrations that interleave: one address, as typed and in capitals
RaceUserData ==
    {[name |-> NameBo, email |-> GenEmail(1)],
     [name |-> NameBo, email |-> <<"A", "@", "D", ".", "c">>]}

\* the updates that interleave: a new name, the first address, a second one
RaceUpdateInputs ==
    {[name |-> <<"A", "l">>, email |-> Undefined],
     [name |-> Undefined, email |-> GenEmail(1)],
     [name |-> Undefined, email |-> GenEmail(2)]}

NextRaceUser ==
    \/ CreateUserCall(RaceUserData)
    \/ CreateUserAfterFindByEmail
    \/ CreateUserAfterCreate
    \/ UpdateUserCall(RaceUpdateInputs)
    \/ UpdateUserAfterFindById
    \/ UpdateUserAfterEmailExists
    \/ UpdateUserAfterUpdate

SpecRaceUser == Init /\ [][NextRaceUser]_vars

\* C17: when CreateUser and UpdateUser executions interleave at their awaits,
\* no two stored users have emails that are equal ignoring case.
NoTwoUsersShareEmail ==
    \A a \in DOMAIN users, b \in DOMAIN users :
        a # b => ToLowerCase(users[a].email) # ToLowerCase(users[b].email)

\* the project the execution found: Project objects are shared with the
\* repository (InMemoryProjectRepository.findById returns the stored object),
\* so while the project is stored its fields are read from the repository; a
\* project deleted meanwhile stays as it was found (no action changes the
\* owner or the team of a deleted project)
ProjectOf(t) ==
    IF tasks[t].project.id \in DOMAIN projects
    THEN projects[tasks[t].project.id]
    ELSE tasks[t].project

\* CreateApplicationUseCase.execute from the call to the awaited
\* projectRepository.findById
CreateApplicationCall(targets) ==
    /\ Len(tasks) < MaxTasks
    /\ \E applicantId \in Actors, projectId \in targets, position \in PositionInputs :
        LET input == [applicantId |-> applicantId, projectId |-> projectId,
                      position |-> position]
            task == NewTask("CreateApplication", "projectFindById", 0, input)
        IN  IF ~ApplicationIsValid(input)
            THEN /\ tasks' = Append(tasks, [task EXCEPT !.pc = "done",
                                                        !.result = "ValidationError"])
                 /\ last' = Call("CreateApplication", "ValidationError", <<>>, <<>>, 0)
            ELSE /\ tasks' = Append(tasks,
                        [task EXCEPT !.project =
                                IF projectId \in DOMAIN projects
                                THEN projects[projectId] ELSE NullProject])
                 /\ UNCHANGED last
    /\ UNCHANGED <<users, projects, applications, userSeq, projectSeq, applicationSeq, others>>

\* from the result of projectRepository.findById to the awaited
\* userRepository.findById
CreateApplicationAfterProjectFindById ==
    \E t \in Suspended("CreateApplication", "projectFindById") :
        LET applicantId == tasks[t].data.applicantId
        IN  /\ IF tasks[t].project.id = 0
               THEN /\ tasks' = Finish(t, "NotFoundError")
                    /\ last' = Call("CreateApplication", "NotFoundError", <<>>, <<>>, 0)
               ELSE /\ tasks' = [tasks EXCEPT
                            ![t].pc = "userFindById",
                            ![t].user = IF UserExists(applicantId)
                                        THEN FromPersistence(users[applicantId])
                                        ELSE NullUser]
                    /\ UNCHANGED last
            /\ UNCHANGED <<users, projects, applications, userSeq, projectSeq,
                           applicationSeq, others>>

\* from the result of userRepository.findById to the awaited
\* applicationRepository.exists
CreateApplicationAfterUserFindById ==
    \E t \in Suspended("CreateApplication", "userFindById") :
        LET input == tasks[t].data
        IN  /\ IF tasks[t].user.id = 0
               THEN /\ tasks' = Finish(t, "NotFoundError")
                    /\ last' = Call("CreateApplication", "NotFoundError", <<>>, <<>>, 0)
               ELSE IF \/ IsTeamMember(ProjectOf(t), input.applicantId)
                       \/ IsOwner(ProjectOf(t), input.applicantId)
               THEN /\ tasks' = Finish(t, "ConflictError")
                    /\ last' = Call("CreateApplication", "ConflictError", <<>>, <<>>, 0)
               ELSE /\ tasks' = [tasks EXCEPT
                            ![t].pc = "exists",
                            ![t].found =
                                IF ApplicationExists(input.applicantId, input.projectId)
                                THEN 1 ELSE 0]
                    /\ UNCHANGED last
            /\ UNCHANGED <<users, projects, applications, userSeq, projectSeq,
                           applicationSeq, others>>

\* from the result of exists to the awaited applicationRepository.create
CreateApplicationAfterExists ==
    \E t \in Suspended("CreateApplication", "exists") :
        LET id == ApplicationId(applicationSeq + 1)
        IN  /\ IF tasks[t].found # 0
               THEN /\ tasks' = Finish(t, "ConflictError")
                    /\ last' = Call("CreateApplication", "ConflictError", <<>>, <<>>, 0)
                    /\ UNCHANGED <<applications, applicationSeq>>
               ELSE /\ applications' = MapSet(applications, id,
                                              NewApplication(id, tasks[t].data))
                    /\ applicationSeq' = applicationSeq + 1
                    /\ tasks' = [tasks EXCEPT ![t].pc = "create", ![t].id = id]
                    /\ UNCHANGED last
            /\ UNCHANGED <<users, projects, userSeq, projectSeq, others>>

\* from the result of create into projectRepository.incrementApplicationCount,
\* up to the findById that the repository method awaits
CreateApplicationAfterCreate ==
    \E t \in Suspended("CreateApplication", "create") :
        LET projectId == tasks[t].data.projectId
        IN  /\ tasks' = [tasks EXCEPT
                    ![t].pc = "incrementFindById",
                    ![t].project = IF projectId \in DOMAIN projects
                                   THEN projects[projectId] ELSE NullProject]
            /\ UNCHANGED <<users, projects, applications, userSeq, projectSeq,
                           applicationSeq, last, others>>

\* the rest of incrementApplicationCount: project.incrementApplications() on
\* the object that was found, then update(project), which throws when the
\* project is stored no longer
CreateApplicationIncrement ==
    \E t \in Suspended("CreateApplication", "incrementFindById") :
        LET projectId == tasks[t].project.id
        IN  /\ IF projectId \notin DOMAIN projects
               THEN /\ tasks' = Finish(t, "Error")
                    /\ last' = Call("CreateApplication", "Error", <<>>, <<>>, 0)
                    /\ UNCHANGED projects
               ELSE /\ projects' = MapSet(projects, projectId,
                                          IncrementApplications(projects[projectId]))
                    /\ tasks' = [tasks EXCEPT ![t].pc = "incrementApplicationCount"]
                    /\ UNCHANGED last
            /\ UNCHANGED <<users, applications, userSeq, projectSeq, applicationSeq, others>>

\* from the result of incrementApplicationCount to the return
CreateApplicationAfterIncrement ==
    \E t \in Suspended("CreateApplication", "incrementApplicationCount") :
        /\ tasks' = Finish(t, "ok")
        /\ last' = Call("CreateApplication", "ok", <<>>, <<>>, 0)
        /\ UNCHANGED <<users, projects, applications, userSeq, projectSeq,
                       applicationSeq, others>>

(***************************************************************************)
(* Applications that interleave: a user registers, and executions of       *)
(* CreateApplication for sample project 'proj_2' run side by side.         *)
(***************************************************************************)

NextRaceApply ==
    \/ CreateUser({[name |-> NameBo, email |-> GenEmail(1)]})
    \/ CreateApplicationCall({2})
    \/ CreateApplicationAfterProjectFindById
    \/ CreateApplicationAfterUserFindById
    \/ CreateApplicationAfterExists
    \/ CreateApplicationAfterCreate
    \/ CreateApplicationIncrement
    \/ CreateApplicationAfterIncrement

SpecRaceApply == Init /\ [][NextRaceApply]_vars

\* the stored applications of the applicant to the project
StoredFor(applicantId, projectId) ==
    {a \in DOMAIN applications :
        /\ applications[a].applicantId = applicantId
        /\ applications[a].projectId = projectId}

\* C18: when CreateApplication executions for one (applicantId, projectId)
\* interleave at their awaits, at most one of them stores an application,
\* and the project's applications counter rises by at most one for the pair.
OneApplicationStoredPerPair ==
    \A projectId \in DOMAIN projects \cap DOMAIN SampleProjects :
        /\ \A applicantId \in DOMAIN users :
              Cardinality(StoredFor(applicantId, projectId)) <= 1
        /\ projects[projectId].applications
              <= SampleProjects[projectId].applications
                    + Cardinality({applicantId \in DOMAIN users :
                                      StoredFor(applicantId, projectId) # {}})

\* DeleteProjectUseCase.execute from the call to the awaited findById
DeleteProjectCall(targets) ==
    /\ Len(tasks) < MaxTasks
    /\ \E projectId \in targets, requesterId \in Actors :
        tasks' = Append(tasks,
                    [NewTask("DeleteProject", "findById", projectId,
                             [requesterId |-> requesterId])
                        EXCEPT !.project = IF projectId \in DOMAIN projects
                                           THEN projects[projectId] ELSE NullProject])
    /\ UNCHANGED <<users, projects, applications, userSeq, projectSeq,
                   applicationSeq, last, others>>

\* from the result of findById to the awaited
\* applicationRepository.deleteByProjectId
DeleteProjectAfterFindById ==
    \E t \in Suspended("DeleteProject", "findById") :
        /\ IF tasks[t].project.id = 0
           THEN /\ tasks' = Finish(t, "NotFoundError")
                /\ last' = Call("DeleteProject", "NotFoundError", <<>>, <<>>, 0)
                /\ UNCHANGED applications
           ELSE IF ProjectOf(t).ownerId # tasks[t].data.requesterId
           THEN /\ tasks' = Finish(t, "AuthorizationError")
                /\ last' = Call("DeleteProject", "AuthorizationError", <<>>, <<>>, 0)
                /\ UNCHANGED applications
           ELSE /\ applications' = DeleteByProjectId(tasks[t].id)
                /\ tasks' = [tasks EXCEPT
                        ![t].pc = "deleteByProjectId",
                        ![t].found = Cardinality(DOMAIN applications
                                        \ DOMAIN DeleteByProjectId(tasks[t].id))]
                /\ UNCHANGED last
        /\ UNCHANGED <<users, projects, userSeq, projectSeq, applicationSeq, others>>

\* from the result of deleteByProjectId to the awaited projectRepository.delete
DeleteProjectAfterDeleteByProjectId ==
    \E t \in Suspended("DeleteProject", "deleteByProjectId") :
        /\ projects' = MapDelete(projects, tasks[t].id)
        /\ tasks' = [tasks EXCEPT ![t].pc = "delete"]
        /\ UNCHANGED <<users, applications, userSeq, projectSeq, applicationSeq, last, others>>

\* from the result of delete to the return
DeleteProjectAfterDelete ==
    \E t \in Suspended("DeleteProject", "delete") :
        /\ tasks' = Finish(t, "ok")
        /\ last' = Call("DeleteProject", "ok", <<>>, <<>>, tasks[t].found)
        /\ UNCHANGED <<users, projects, applications, userSeq, projectSeq,
                       applicationSeq, others>>

(***************************************************************************)
(* An application and a deletion that interleave: a user registers;        *)
(* executions of CreateApplication for sample project 'proj_2' and of      *)
(* DeleteProject of 'proj_2' run side by side.                             *)
(***************************************************************************)

NextRaceDelete ==
    \/ CreateUser({[name |-> NameBo, email |-> GenEmail(1)]})
    \/ CreateApplicationCall({2})
    \/ CreateApplicationAfterProjectFindById
    \/ CreateApplicationAfterUserFindById
    \/ CreateApplicationAfterExists
    \/ CreateApplicationAfterCreate
    \/ CreateApplicationIncrement
    \/ CreateApplicationAfterIncrement
    \/ DeleteProjectCall({2})
    \/ DeleteProjectAfterFindById
    \/ DeleteProjectAfterDeleteByProjectId
    \/ DeleteProjectAfterDelete

SpecRaceDelete == Init /\ [][NextRaceDelete]_vars

\* C20: when a CreateApplication for a project has interleaved with a
\* DeleteProject of that project and both have finished, every stored
\* application is for a stored project.
NoOrphanOnceFinished ==
    (\A t \in DOMAIN tasks : tasks[t].pc = "done")
        => \A a \in DOMAIN applications : applications[a].projectId \in DOMAIN projects

\* InMemoryApplicationRepository.update(id, application.toJSON()) of an
\* execution: it throws when the application is stored no longer
ApplicationUpdate(t, op, application) ==
    IF tasks[t].id \notin DOMAIN applications
    THEN /\ tasks' = Finish(t, "Error")
         /\ last' = Call(op, "Error", <<>>, <<>>, 0)
         /\ UNCHANGED applications
    ELSE /\ applications' = MapSet(applications, tasks[t].id, application)
         /\ tasks' = [tasks EXCEPT ![t].pc = "update", ![t].application = application]
         /\ UNCHANGED last

\* AcceptApplicationUseCase.execute from the call to the awaited
\* applicationRepository.findById
AcceptApplicationCall ==
    /\ Len(tasks) < MaxTasks
    /\ \E applicationId \in ApplicationIds, reviewerId \in Actors :
        tasks' = Append(tasks,
                    [NewTask("AcceptApplication", "findById", applicationId,
                             [reviewerId |-> reviewerId])
                        EXCEPT !.application =
                                IF applicationId \in DOMAIN applications
                                THEN applications[applicationId]
                                ELSE NullApplication])
    /\ UNCHANGED <<users, projects, applications, userSeq, projectSeq,
                   applicationSeq, last, others>>

\* from the result of applicationRepository.findById to the awaited
\* projectRepository.findById
AcceptApplicationAfterFindById ==
    \E t \in Suspended("AcceptApplication", "findById") :
        LET projectId == tasks[t].application.projectId
        IN  /\ IF tasks[t].application.id = 0
               THEN /\ tasks' = Finish(t, "NotFoundError")
                    /\ last' = Call("AcceptApplication", "NotFoundError", <<>>, <<>>, 0)
               ELSE /\ tasks' = [tasks EXCEPT
                            ![t].pc = "projectFindById",
                            ![t].project = IF projectId \in DOMAIN projects
                                           THEN projects[projectId]
                                           ELSE NullProject]
                    /\ UNCHANGED last
            /\ UNCHANGED <<users, projects, applications, userSeq, projectSeq,
                           applicationSeq, others>>

\* from the result of projectRepository.findById to the awaited
\* userRepository.findById
AcceptApplicationAfterProjectFindById ==
    \E t \in Suspended("AcceptApplication", "projectFindById") :
        LET applicantId == tasks[t].application.applicantId
        IN  /\ IF tasks[t].project.id = 0
               THEN /\ tasks' = Finish(t, "NotFoundError")
                    /\ last' = Call("AcceptApplication", "NotFoundError", <<>>, <<>>, 0)
               ELSE IF ~IsOwner(ProjectOf(t), tasks[t].data.reviewerId)
               THEN /\ tasks' = Finish(t, "ForbiddenError")
                    /\ last' = Call("AcceptApplication", "ForbiddenError", <<>>, <<>>, 0)
               ELSE IF ~IsPending(tasks[t].application)
               THEN /\ tasks' = Finish(t, "ConflictError")
                    /\ last' = Call("AcceptApplication", "ConflictError", <<>>, <<>>, 0)
               ELSE /\ tasks' = [tasks EXCEPT
                            ![t].pc = "userFindById",
                            ![t].user = IF UserExists(applicantId)
                                        THEN FromPersistence(users[applicantId])
                                        ELSE NullUser]
                    /\ UNCHANGED last
            /\ UNCHANGED <<users, projects, applications, userSeq, projectSeq,
                           applicationSeq, others>>

\* from the result of userRepository.findById to the awaited
\* applicationRepository.update
AcceptApplicationAfterUserFindById ==
    \E t \in Suspended("AcceptApplication", "userFindById") :
        /\ IF tasks[t].user.id = 0
           THEN /\ tasks' = Finish(t, "NotFoundError")
                /\ last' = Call("AcceptApplication", "NotFoundError", <<>>, <<>>, 0)
                /\ UNCHANGED applications
           ELSE ApplicationUpdate(t, "AcceptApplication",
                    ApplicationAccept(tasks[t].application, tasks[t].data.reviewerId))
        /\ UNCHANGED <<users, projects, userSeq, projectSeq, applicationSeq, others>>

\* from the result of update into projectRepository.addTeamMember, up to the
\* findById that the repository method awaits
AcceptApplicationAfterUpdate ==
    \E t \in Suspended("AcceptApplication", "update") :
        LET projectId == tasks[t].project.id
        IN  /\ tasks' = [tasks EXCEPT
                    ![t].pc = "addTeamMemberFindById",
                    ![t].project = IF projectId \in DOMAIN projects
                                   THEN projects[projectId] ELSE NullProject]
            /\ UNCHANGED <<users, projects, applications, userSeq, projectSeq,
                           applicationSeq, last, others>>

\* the rest of addTeamMember: project.addTeamMember(member) on the object
\* that was found, which throws when the applicant is on the team, then
\* update(project), which throws when the project is stored no longer
AcceptApplicationAddTeamMember ==
    \E t \in Suspended("AcceptApplication", "addTeamMemberFindById") :
        LET projectId == tasks[t].project.id
            member == Member(tasks[t].user.id, tasks[t].application.position)
        IN  /\ IF \/ projectId \notin DOMAIN projects
                  \/ ~CanAddTeamMember(projects[projectId], member)
               THEN /\ tasks' = Finish(t, "Error")
                    /\ last' = Call("AcceptApplication", "Error", <<>>, <<>>, 0)
                    /\ UNCHANGED projects
               ELSE /\ projects' = MapSet(projects, projectId,
                                          ProjectAddTeamMember(projects[projectId], member))
                    /\ tasks' = [tasks EXCEPT ![t].pc = "addTeamMember"]
                    /\ UNCHANGED last
            /\ UNCHANGED <<users, applications, userSeq, projectSeq, applicationSeq, others>>

\* from the result of addTeamMember to the return
AcceptApplicationAfterAddTeamMember ==
    \E t \in Suspended("AcceptApplication", "addTeamMember") :
        /\ tasks' = Finish(t, "ok")
        /\ last' = Call("AcceptApplication", "ok", <<>>, <<>>, 0)
        /\ UNCHANGED <<users, projects, applications, userSeq, projectSeq,
                       applicationSeq, others>>

\* RejectApplicationUseCase.execute from the call to the awaited
\* applicationRepository.findById
RejectApplicationCall ==
    /\ Len(tasks) < MaxTasks
    /\ \E applicationId \in ApplicationIds, reviewerId \in Actors :
        tasks' = Append(tasks,
                    [NewTask("RejectApplication", "findById", applicationId,
                             [reviewerId |-> reviewerId])
                        EXCEPT !.application =
                                IF applicationId \in DOMAIN applications
                                THEN applications[applicationId]
                                ELSE NullApplication])
    /\ UNCHANGED <<users, projects, applications, userSeq, projectSeq,
                   applicationSeq, last, others>>

\* from the result of applicationRepository.findById to the awaited
\* projectRepository.findById
RejectApplicationAfterFindById ==
    \E t \in Suspended("RejectApplication", "findById") :
        LET projectId == tasks[t].application.projectId
        IN  /\ IF tasks[t].application.id = 0
               THEN /\ tasks' = Finish(t, "NotFoundError")
                    /\ last' = Call("RejectApplication", "NotFoundError", <<>>, <<>>, 0)
               ELSE /\ tasks' = [tasks EXCEPT
                            ![t].pc = "projectFindById",
                            ![t].project = IF projectId \in DOMAIN projects
                                           THEN projects[projectId]
                                           ELSE NullProject]
                    /\ UNCHANGED last
            /\ UNCHANGED <<users, projects, applications, userSeq, projectSeq,
                           applicationSeq, others>>

\* from the result of projectRepository.findById to the awaited
\* applicationRepository.update
RejectApplicationAfterProjectFindById ==
    \E t \in Suspended("RejectApplication", "projectFindById") :
        /\ IF tasks[t].project.id = 0
           THEN /\ tasks' = Finish(t, "NotFoundError")
                /\ last' = Call("RejectApplication", "NotFoundError", <<>>, <<>>, 0)
                /\ UNCHANGED applications
           ELSE IF ~IsOwner(ProjectOf(t), tasks[t].data.reviewerId)
           THEN /\ tasks' = Finish(t, "ForbiddenError")
                /\ last' = Call("RejectApplication", "ForbiddenError", <<>>, <<>>, 0)
                /\ UNCHANGED applications
           ELSE IF ~IsPending(tasks[t].application)
           THEN /\ tasks' = Finish(t, "ConflictError")
                /\ last' = Call("RejectApplication", "ConflictError", <<>>, <<>>, 0)
                /\ UNCHANGED applications
           ELSE ApplicationUpdate(t, "RejectApplication",
                    ApplicationReject(tasks[t].application, tasks[t].data.reviewerId))
        /\ UNCHANGED <<users, projects, userSeq, projectSeq, applicationSeq, others>>

\* from the result of update to the return
RejectApplicationAfterUpdate ==
    \E t \in Suspended("RejectApplication", "update") :
        /\ tasks' = Finish(t, "ok")
        /\ last' = Call("RejectApplication", "ok", <<>>, <<>>, 0)
        /\ UNCHANGED <<users, projects, applications, userSeq, projectSeq,
                       applicationSeq, others>>

\* WithdrawApplicationUseCase.execute from the call to the awaited
\* applicationRepository.findById
WithdrawApplicationCall ==
    /\ Len(tasks) < MaxTasks
    /\ \E applicationId \in ApplicationIds, applicantId \in Actors :
        tasks' = Append(tasks,
                    [NewTask("WithdrawApplication", "findById", applicationId,
                             [applicantId |-> applicantId])
                        EXCEPT !.application =
                                IF applicationId \in DOMAIN applications
                                THEN applications[applicationId]
                                ELSE NullApplication])
    /\ UNCHANGED <<users, projects, applications, userSeq, projectSeq,
                   applicationSeq, last, others>>

\* from the result of applicationRepository.findById to the awaited
\* applicationRepository.update
WithdrawApplicationAfterFindById ==
    \E t \in Suspended("WithdrawApplication", "findById") :
        /\ IF tasks[t].application.id = 0
           THEN /\ tasks' = Finish(t, "NotFoundError")
                /\ last' = Call("WithdrawApplication", "NotFoundError", <<>>, <<>>, 0)
                /\ UNCHANGED applications
           ELSE IF tasks[t].application.applicantId # tasks[t].data.applicantId
           THEN /\ tasks' = Finish(t, "ForbiddenError")
                /\ last' = Call("WithdrawApplication", "ForbiddenError", <<>>, <<>>, 0)
                /\ UNCHANGED applications
           ELSE IF ~IsPending(tasks[t].application)
           THEN /\ tasks' = Finish(t, "ConflictError")
                /\ last' = Call("WithdrawApplication", "ConflictError", <<>>, <<>>, 0)
                /\ UNCHANGED applications
           ELSE ApplicationUpdate(t, "WithdrawApplication",
                    ApplicationWithdraw(tasks[t].application))
        /\ UNCHANGED <<users, projects, userSeq, projectSeq, applicationSeq, others>>

\* from the result of update to the return
WithdrawApplicationAfterUpdate ==
    \E t \in Suspended("WithdrawApplication", "update") :
        /\ tasks' = Finish(t, "ok")
        /\ last' = Call("WithdrawApplication", "ok", <<>>, <<>>, 0)
        /\ UNCHANGED <<users, projects, applications, userSeq, projectSeq,
                       applicationSeq, others>>

(***************************************************************************)
(* Reviews that interleave: a user registers and applies to sample project *)
(* 'proj_2'; executions of AcceptApplication, RejectApplication and        *)
(* WithdrawApplication run side by side.                                   *)
(***************************************************************************)

NextRaceReview ==
    \/ CreateUser({[name |-> NameBo, email |-> GenEmail(1)]})
    \/ CreateApplication({2}, MaxTeamApplications)
    \/ AcceptApplicationCall
    \/ AcceptApplicationAfterFindById
    \/ AcceptApplicationAfterProjectFindById
    \/ AcceptApplicationAfterUserFindById
    \/ AcceptApplicationAfterUpdate
    \/ AcceptApplicationAddTeamMember
    \/ AcceptApplicationAfterAddTeamMember
    \/ RejectApplicationCall
    \/ RejectApplicationAfterFindById
    \/ RejectApplicationAfterProjectFindById
    \/ RejectApplicationAfterUpdate
    \/ WithdrawApplicationCall
    \/ WithdrawApplicationAfterFindById
    \/ WithdrawApplicationAfterUpdate

SpecRaceReview == Init /\ [][NextRaceReview]_vars

\* the executions on the application that have stored their status
HaveUpdated(applicationId) ==
    {t \in DOMAIN tasks :
        /\ tasks[t].op \in {"AcceptApplication", "RejectApplication",
                             "WithdrawApplication"}
        /\ tasks[t].id = applicationId
        /\ \/ tasks[t].pc \in {"update", "addTeamMemberFindById", "addTeamMember"}
           \/ tasks[t].result = "ok"}

\* C19: when AcceptApplication, RejectApplication and WithdrawApplication
\* executions on one pending application interleave at their awaits, at most
\* one of them succeeds, and the status that an execution has stored is
\* the stored status from then on.
OneReviewWins ==
    \A a \in DOMAIN applications :
        /\ Cardinality({t \in HaveUpdated(a) : tasks[t].result = "ok"}) <= 1
        /\ \A t \in HaveUpdated(a) :
              applications[a].status = tasks[t].application.status

-----------------------------------------------------------------------------
(***************************************************************************)
(* paginate of utils/helpers.js: a pure function.  A request holds an      *)
(* array, a page and a limit; the one action applies paginate to it.       *)
(***************************************************************************)

\* the longest array, the highest page and the highest limit of a request
MaxItems == 5

MaxPage == 4

MaxLimit == 4

\* an array of n different items; the item at a position is not the position
ArrayOf(n) == [i \in 1..n |-> 100 + n - i]

\* Array.prototype.slice(start, end) for 0 <= start <= end: the items at the
\* zero-based indices start .. end - 1 that the array has
Slice(array, start, end) ==
    SubSeq(array, start + 1, IF end < Len(array) THEN end ELSE Len(array))

\* Math.ceil(a / b) for integers a >= 0, b >= 1
Ceil(a, b) == IF a % b = 0 THEN a \div b ELSE (a \div b) + 1

\* paginate as it would be if the first page began after the first limit items
PaginateFromPage(array, page, limit) ==
    LET startIndex == page * limit
        endIndex == startIndex + limit
        total == Len(array)
        totalPages == Ceil(total, limit)
    IN  [data |-> Slice(array, startIndex, endIndex),
         pagination |-> [currentPage |-> page, totalPages |-> totalPages,
                         totalItems |-> total, itemsPerPage |-> limit,
                         hasNextPage |-> page < totalPages,
                         hasPrevPage |-> page > 1]]

\* paginate
Paginate(array, page, limit) ==
    LET startIndex == (page - 1) * limit
        endIndex == startIndex + limit
        total == Len(array)
        totalPages == Ceil(total, limit)
    IN  [data |-> Slice(array, startIndex, endIndex),
         pagination |-> [currentPage |-> page, totalPages |-> totalPages,
                         totalItems |-> total, itemsPerPage |-> limit,
                         hasNextPage |-> page < totalPages,
                         hasPrevPage |-> page > 1]]

InitPaginate ==
    /\ InitRepositories
    /\ paging \in {[op |-> "request", array |-> ArrayOf(n), page |-> p, limit |-> l] :
                      n \in 0..MaxItems, p \in 1..MaxPage, l \in 1..MaxLimit}
    /\ http = Idle
    /\ database = Idle
    /\ auth = Idle

PaginateCall ==
    /\ paging.op = "request"
    /\ paging' = [op |-> "paginate", array |-> paging.array, page |-> paging.page,
                  limit |-> paging.limit,
                  result |-> Paginate(paging.array, paging.page, paging.limit)]
    /\ UNCHANGED <<repositories, http, database, auth>>

NextPaginate == PaginateCall

SpecPaginate == InitPaginate /\ [][NextPaginate]_vars

\* C21: for an array of n items, a page p >= 1 and a limit L >= 1, paginate
\* returns in order the items at positions (p-1)*L+1 to min(p*L, n), with
\* totalItems = n, itemsPerPage = L, currentPage = p, totalPages the least
\* number of pages of L items that hold n items, hasNextPage = (p < totalPages)
\* and hasPrevPage = (p > 1).
PaginateReturnsThePage ==
    paging.op = "paginate"
    => LET n == Len(paging.array)
           p == paging.page
           L == paging.limit
           first == (p - 1) * L + 1
           final == IF p * L < n THEN p * L ELSE n
           data == paging.result.data
           meta == paging.result.pagination
       IN  /\ Len(data) = (IF final >= first THEN final - first + 1 ELSE 0)
           /\ \A k \in 1..Len(data) : data[k] = paging.array[first + k - 1]
           /\ meta.totalItems = n
           /\ meta.itemsPerPage = L
           /\ meta.currentPage = p
           /\ meta.totalPages * L >= n
           /\ (meta.totalPages - 1) * L < n
           /\ meta.totalPages >= 0
           /\ meta.hasNextPage = (p < meta.totalPages)
           /\ meta.hasPrevPage = (p > 1)

\* C21 witness: the third and last page of five items, two to a page
LastPageReturned ==
    /\ paging.op = "paginate"
    /\ Len(paging.array) = 5
    /\ paging.page = 3
    /\ paging.limit = 2
    /\ Len(paging.result.data) = 1
    /\ ~paging.result.pagination.hasNextPage

-----------------------------------------------------------------------------
(***************************************************************************)
(* The Express backend: loginUser issues a token; a request then passes    *)
(* through authenticate and authorize(roles) to its handler, to the global *)
(* error handler when the handler fails, or it names no route and reaches  *)
(* the 404 handler.  A JSON value that is a string where another response  *)
(* has an object is written [type |-> "string", ...], the object           *)
(* [type |-> "object", ...].                                               *)
(***************************************************************************)

\* how JWT_SECRET is configured: not at all, in the environment of the
\* process, or in backend/.env, which server.js loads with dotenv.config()
\* after its imports, middleware/auth.js among them, have been evaluated
Environments == {"unset", "process", "dotenv"}

\* process.env.JWT_SECRET || '...' of middleware/auth.js, read when the module
\* is evaluated
MiddlewareSecret(env) ==
    IF env = "process" THEN "JWT_SECRET"
    ELSE "your-super-secret-jwt-key-change-in-production"

\* process.env.JWT_SECRET || '...' of loginUser, read when a user logs in
LoginSecret(env) ==
    IF env \in {"process", "dotenv"} THEN "JWT_SECRET"
    ELSE "teamera-super-secret-jwt-key-2024"

Roles == {"user", "admin"}

NoToken == [kind |-> "empty"]

\* jwt.sign(payload, secret): the role of the payload, the key, and whether
\* the token carries an nbf claim that lies in the future
Jwt(secret, role, notBefore) ==
    [kind |-> "jwt", secret |-> secret, role |-> role, notBefore |-> notBefore]

\* jwt.verify(token, secret) of jsonwebtoken when the request arrives at the
\* time clock: the name of the error it throws, or "ok"
JwtVerify(token, secret, clock) ==
    IF token.kind # "jwt" THEN "JsonWebTokenError"
    ELSE IF token.secret # secret THEN "JsonWebTokenError"
    ELSE IF token.notBefore THEN "NotBeforeError"
    ELSE IF clock = "late" THEN "TokenExpiredError"
    ELSE "ok"

\* errorResponse of utils/helpers.js
ErrorResponse(message, code) ==
    [success |-> FALSE, message |-> message,
     error |-> [type |-> "object", code |-> code, timestamp |-> Now]]

\* the body authenticate and authorize send
AuthBody(error, message) ==
    [success |-> FALSE, error |-> [type |-> "string", value |-> error],
     message |-> message]

\* a response: the middleware or handler that sent it, the status, the body
Response(by, status, body) == [by |-> by, status |-> status, body |-> body]

\* res.status(status).json(body) ends the request
Send(by, status, body) ==
    http' = [http EXCEPT !.pc = "done",
                         !.sent = Append(@, Response(by, status, body))]

\* next() hands the request on
NextCalled(by, pc) == [http EXCEPT !.pc = pc, !.next = Append(@, by)]

InitHttp ==
    /\ InitRepositories
    /\ paging = Idle
    /\ http \in {[pc |-> "login", env |-> env, issued |-> NoToken,
                  scheme |-> "none", token |-> NoToken, clock |-> "fresh",
                  roles |-> {}, role |-> "none", sent |-> <<>>, next |-> <<>>] :
                    env \in Environments}
    /\ database = Idle
    /\ auth = Idle

\* userController.loginUser: the credentials are missing, name no user, carry
\* a wrong password, or are those of a user with the role
LoginUser ==
    /\ http.pc = "login"
    /\ \/ Send("loginUser", 400,
               ErrorResponse("Email and password are required", "MISSING_CREDENTIALS"))
       \/ Send("loginUser", 401,
               ErrorResponse("Invalid email or password", "INVALID_CREDENTIALS"))
       \/ \E role \in Roles :
            http' = [http EXCEPT
                        !.pc = "done",
                        !.issued = Jwt(LoginSecret(http.env), role, FALSE),
                        !.sent = Append(@, Response("loginUser", 200,
                                    [success |-> TRUE, message |-> "Login successful",
                                     timestamp |-> Now]))]
    /\ UNCHANGED <<repositories, paging, database, auth>>

\* the tokens a client can present: the token it was issued, tokens signed with
\* the secret the middleware falls back to and with another key, text that is
\* no token, and nothing
TokenInputs ==
    {http.issued, NoToken, [kind |-> "garbage"]}
        \cup {Jwt(secret, role, notBefore) :
                secret \in {"your-super-secret-jwt-key-change-in-production", "other"},
                role \in {"admin"}, notBefore \in BOOLEAN}

\* a request arrives for a route behind authenticate and authorize(roles), or
\* for no route: with no Authorization header, with 'Bearer ' and a token, or
\* with the token alone; before or after the expiry of the token
Request ==
    /\ http.pc = "done"
    /\ Len(http.sent) = 1
    /\ \E scheme \in {"none", "Bearer", "raw"}, token \in TokenInputs,
          clock \in {"fresh", "late"}, roles \in {{"admin"}, Roles},
          route \in {"authenticate", "notFound"} :
        /\ scheme = "none" => token = NoToken /\ clock = "fresh"
        /\ token.kind # "jwt" => clock = "fresh"
        /\ route = "notFound" => scheme = "none" /\ roles = Roles
        /\ http' = [http EXCEPT !.pc = route, !.scheme = scheme, !.token = token,
                                !.clock = clock, !.roles = roles]
    /\ UNCHANGED <<repositories, paging, database, auth>>

\* authenticate
Authenticate ==
    /\ http.pc = "authenticate"
    /\ LET verified == JwtVerify(http.token, MiddlewareSecret(http.env), http.clock)
       IN  IF http.scheme = "none" \/ (http.scheme = "raw" /\ http.token = NoToken)
           THEN Send("authenticate", 401,
                     AuthBody("Authorization header missing",
                              "Please provide a valid authentication token"))
           ELSE IF http.token = NoToken
           THEN Send("authenticate", 401,
                     AuthBody("Token missing",
                              "Please provide a valid authentication token"))
           ELSE IF verified = "ok"
           THEN http' = [NextCalled("authenticate", "authorize")
                            EXCEPT !.role = http.token.role]
           ELSE IF verified = "TokenExpiredError"
           THEN Send("authenticate", 401,
                     AuthBody("Token expired",
                              "Your session has expired. Please login again"))
           ELSE IF verified = "JsonWebTokenError"
           THEN Send("authenticate", 401,
                     AuthBody("Invalid token", "The provided token is invalid"))
           ELSE Send("authenticate", 500,
                     AuthBody("Authentication error",
                              "An error occurred during authentication"))
    /\ UNCHANGED <<repositories, paging, database, auth>>

\* the middleware authorize(...allowedRoles) returns
Authorize ==
    /\ http.pc = "authorize"
    /\ IF http.role = "none"
       THEN Send("authorize", 401, AuthBody("Unauthorized", "Authentication required"))
       ELSE IF http.role \notin http.roles
       THEN Send("authorize", 403,
                 AuthBody("Forbidden",
                          "You do not have permission to access this resource"))
       ELSE http' = NextCalled("authorize", "handler")
    /\ UNCHANGED <<repositories, paging, database, auth>>

\* the handler of the route answers, or fails with a mongoose ValidationError,
\* a mongoose CastError or another error, which asyncHandler passes to next
Handler ==
    /\ http.pc = "handler"
    /\ \/ Send("handler", 200, [success |-> TRUE, message |-> "Success",
                                timestamp |-> Now])
       \/ \E name \in {"ValidationError", "CastError", "Error"} :
            http' = [http EXCEPT !.pc = name]
    /\ UNCHANGED <<repositories, paging, database, auth>>

\* the body of the error handling middleware of server.js
ErrorBody(error, message) ==
    [success |-> FALSE, error |-> [type |-> "string", value |-> error],
     message |-> message, timestamp |-> Now]

\* the error handling middleware of server.js
ErrorHandler ==
    /\ http.pc \in {"ValidationError", "CastError", "Error"}
    /\ IF http.pc = "ValidationError"
       THEN Send("errorHandler", 400, ErrorBody("Validation Error", "Name is required"))
       ELSE IF http.pc = "CastError"
       THEN Send("errorHandler", 400, ErrorBody("Invalid ID", "Invalid ID format"))
       ELSE Send("errorHandler", 500,
                 ErrorBody("Internal Server Error", "Something went wrong!"))
    /\ UNCHANGED <<repositories, paging, database, auth>>

\* the 404 handler of server.js
NotFound ==
    /\ http.pc = "notFound"
    /\ Send("notFound", 404,
            [error |-> [type |-> "string", value |-> "Not Found"],
             message |-> "Route not found"])
    /\ UNCHANGED <<repositories, paging, database, auth>>

NextHttp ==
    \/ LoginUser
    \/ Request
    \/ Authenticate
    \/ Authorize
    \/ Handler
    \/ ErrorHandler
    \/ NotFound

SpecHttp == InitHttp /\ [][NextHttp]_vars

\* C22: every error response body (of errorResponse, authenticate, authorize,
\* the error handling middleware and the 404 handler) has the top-level
\* fields success, equal to false, message, error, an object with a code, and
\* timestamp.
ErrorBodiesUniform ==
    \A i \in DOMAIN http.sent :
        LET body == http.sent[i].body
        IN  http.sent[i].status >= 400
            => /\ {"success", "message", "error", "timestamp"} \subseteq DOMAIN body
               /\ body.success = FALSE
               /\ body.error.type = "object"
               /\ "code" \in DOMAIN body.error

\* the middleware has run on the request: it has sent a response or called next
HasRun(by) ==
    \/ \E i \in DOMAIN http.sent : http.sent[i].by = by
    \/ \E i \in DOMAIN http.next : http.next[i] = by

\* the statuses of the responses the middleware has sent
StatusesOf(by) == {http.sent[i].status : i \in {j \in DOMAIN http.sent : http.sent[j].by = by}}

\* the request carries a token that verifies and is not expired
CarriesValidToken ==
    /\ http.scheme # "none"
    /\ JwtVerify(http.token, MiddlewareSecret(http.env), http.clock) = "ok"

\* C26: a request reaches the handler behind authenticate and authorize(roles)
\* only if it carries a token that verifies, is not expired and has a role in
\* roles; a missing, invalid or expired token is answered with 401, a role
\* outside roles with 403; and each middleware sends one response or calls
\* next() once, never both.
OnlyAuthorizedReachHandler ==
    /\ http.pc = "handler"
          => CarriesValidToken /\ http.token.role \in http.roles
    /\ HasRun("authenticate") /\ ~CarriesValidToken
          => StatusesOf("authenticate") = {401}
    /\ HasRun("authorize") /\ http.role \notin http.roles
          => StatusesOf("authorize") = {403}
    /\ \A by \in {"authenticate", "authorize"} :
          Cardinality({i \in DOMAIN http.sent : http.sent[i].by = by})
              + Cardinality({i \in DOMAIN http.next : http.next[i] = by}) <= 1

\* C27: a token issued by loginUser is accepted by authenticate until it
\* expires, however JWT_SECRET is configured.
IssuedTokenAccepted ==
    /\ HasRun("authenticate")
    /\ http.issued # NoToken
    /\ http.token = http.issued
    /\ http.clock = "fresh"
    => StatusesOf("authenticate") = {}

-----------------------------------------------------------------------------
(* Reading the applications a project owner has received *)

\* no status filter: status = null
NoStatus == "null"

\* InMemoryApplicationRepository.findByProjectOwnerId: the ids of the
\* applications it returns (the order, by appliedDate, is not modelled)
FindByProjectOwnerId(ownerId, status, ownedProjectIds) ==
    {a \in DOMAIN applications :
        /\ ownedProjectIds # {} => applications[a].projectId \in ownedProjectIds
        /\ status # NoStatus => applications[a].status = status}

\* GetReceivedApplicationsUseCase.execute
GetReceivedApplications(ownerId, status) == FindByProjectOwnerId(ownerId, status, {})

\* C23: GetReceivedApplications(ownerId, status) returns exactly the stored
\* applications whose project is owned by ownerId, and whose status is status
\* when one is given.
ReceivedAreOwn ==
    \A ownerId \in AnyCaller, status \in ApplicationStatus \cup {NoStatus} :
        GetReceivedApplications(ownerId, status)
            = {a \in DOMAIN applications :
                  /\ applications[a].projectId \in DOMAIN projects
                  /\ projects[applications[a].projectId].ownerId = ownerId
                  /\ status # NoStatus => applications[a].status = status}

-----------------------------------------------------------------------------
(***************************************************************************)
(* GetAllContacts: the array of a request is the contact list after        *)
(* InMemoryContactRepository.findAll has filtered and sorted it.           *)
(***************************************************************************)

\* the rest of InMemoryContactRepository.findAll: limit and offset are taken
\* from the options, 10 and 0 when the options do not have them
ContactsFindAll(contacts, options) ==
    LET limit == IF "limit" \in DOMAIN options THEN options.limit ELSE 10
        offset == IF "offset" \in DOMAIN options THEN options.offset ELSE 0
    IN  [data |-> Slice(contacts, offset, offset + limit), total |-> Len(contacts)]

\* GetAllContactsUseCase.execute, with a page and a limit that are not 0
GetAllContacts(contacts, options) ==
    LET result == ContactsFindAll(contacts, options)
    IN  [success |-> TRUE, data |-> result.data,
         pagination |-> [total |-> result.total, page |-> options.page,
                         limit |-> options.limit,
                         totalPages |-> Ceil(result.total, options.limit)]]

GetAllContactsCall ==
    /\ paging.op = "request"
    /\ paging' = [op |-> "GetAllContacts", array |-> paging.array,
                  page |-> paging.page, limit |-> paging.limit,
                  result |-> GetAllContacts(paging.array,
                                [page |-> paging.page, limit |-> paging.limit])]
    /\ UNCHANGED <<repositories, http, database, auth>>

NextContacts == GetAllContactsCall

SpecContacts == InitPaginate /\ [][NextContacts]_vars

\* the blocks of the pages 1 .. p, one after the other
RECURSIVE Blocks(_, _, _)
Blocks(contacts, limit, p) ==
    IF p = 0 THEN <<>>
    ELSE Blocks(contacts, limit, p - 1)
            \o GetAllContacts(contacts, [page |-> p, limit |-> limit]).data

\* C24: GetAllContacts with page p and limit L returns the p-th block of the
\* filtered, sorted contact list, positions (p-1)*L+1 to p*L, and the blocks
\* of the pages 1 .. totalPages make up the whole list, no contact repeated.
ContactsPageIsBlock ==
    paging.op = "GetAllContacts"
    => LET n == Len(paging.array)
           p == paging.page
           L == paging.limit
           first == (p - 1) * L + 1
           final == IF p * L < n THEN p * L ELSE n
           data == paging.result.data
       IN  /\ Len(data) = (IF final >= first THEN final - first + 1 ELSE 0)
           /\ \A k \in 1..Len(data) : data[k] = paging.array[first + k - 1]
           /\ Blocks(paging.array, L, paging.result.pagination.totalPages)
                 = paging.array

-----------------------------------------------------------------------------
(***************************************************************************)
(* UpdateUserProfile on a repository that holds several users              *)
(***************************************************************************)

MaxRegistered == 2

\* the users the repository holds after n registrations, the k-th with the
\* k-th address
RegisteredUsers(n) ==
    [id \in {UserId(k) : k \in 1..n} |->
        UserData(id, UserCreate([name |-> NameBo, email |-> GenEmail(id - UserId(0)),
                                 role |-> "user"]))]

LongBio == [i \in 1..501 |-> "x"]

\* the profileData of the requests: a bio and a password; every field that is
\* not a profile field, and an avatar; skills, links and a bio of one space;
\* a bio that is too long
ProfileInputs ==
    {ProfileData,
     [id |-> 2, name |-> <<"A", "l">>, email |-> <<"z", "@", "d", ".", "c">>,
      role |-> "admin", status |-> "suspended", avatar |-> <<"a">>],
     [skills |-> <<"js">>, socialLinks |-> {<<"github", <<"g">>>>}, bio |-> <<" ">>],
     [bio |-> LongBio]}

InitProfile ==
    /\ \E n \in 0..MaxRegistered : users = RegisteredUsers(n) /\ userSeq = n
    /\ projects = SampleProjects
    /\ applications = EmptyMap
    /\ projectSeq = 0
    /\ applicationSeq = 0
    /\ last = [op |-> "none", result |-> "none", name |-> <<>>, email |-> <<>>,
               count |-> 0]
    /\ tasks = <<>>
    /\ paging = Idle
    /\ http = Idle
    /\ database = Idle
    /\ auth = Idle

NextProfile ==
    \/ CreateUser(WorkflowUserData)
    \/ UpdateUserProfile(ProfileInputs)
    \/ DeleteUser

SpecProfile == InitProfile /\ [][NextProfile]_vars

\* the fields of a stored user that are part of its profile
ProfileFields == {"avatar", "bio", "skills", "socialLinks", "updatedAt"}

\* C25: for every profileData, UpdateUserProfile changes at most the avatar,
\* bio, skills, socialLinks and updatedAt of the stored user: its id, name,
\* email, role and status are unchanged, and no other stored user changes.
ProfileUpdateKeepsTheRest ==
    \A id \in AnyCaller, profileData \in ProfileInputs :
        LET out == UpdateUserProfileOutcome(id, profileData)
        IN  /\ DOMAIN out.users = DOMAIN users
            /\ \A u \in DOMAIN users :
                  /\ u # id => out.users[u] = users[u]
                  /\ DOMAIN out.users[u] \ ProfileFields = DOMAIN users[u] \ ProfileFields
                  /\ {"id", "name", "email", "role", "status"} \subseteq DOMAIN users[u]
                  /\ \A f \in DOMAIN users[u] \ ProfileFields :
                        out.users[u][f] = users[u][f]

\* UpdateUserProfile has stored an avatar for one of two users, sent along
\* with another name, address, role and status
ProfileUpdatedOfOne ==
    /\ last.op = "UpdateUserProfile"
    /\ last.result = "ok"
    /\ \E u, v \in DOMAIN users :
        /\ u # v
        /\ users[u].avatar = <<"a">>
        /\ users[u].name = NameBo
        /\ users[v].avatar = NoAvatar

-----------------------------------------------------------------------------
(***************************************************************************)
(* DatabaseConnection.  _connectionState and connectionAttempts are        *)
(* variables of the module connection.js, shared by every call; failed     *)
(* counts the attempts of the present call that mongoose.connect rejected. *)
(***************************************************************************)

MAX_RETRY_ATTEMPTS == 5

\* calls of connect() in one run
MaxCalls == 3

\* the constructor, and the module's variables as the module sets them
InitDatabase ==
    /\ InitRepositories
    /\ paging = Idle
    /\ http = Idle
    /\ database = [pc |-> "idle", connectionState |-> FALSE, connection |-> "null",
                   connectionAttempts |-> 0, failed |-> 0, calls |-> 0,
                   handlers |-> FALSE]
    /\ auth = Idle

\* no call of connect() or disconnect() is running
Settled == database.pc \in {"idle", "returned", "thrown", "disconnected"}

\* connect up to the await of mongoose.connect, or up to the return of the
\* connection there is
ConnectUpToAwait(db) ==
    IF db.connectionState /\ db.connection # "null"
    THEN [db EXCEPT !.pc = "returned"]
    ELSE [db EXCEPT !.pc = "connecting", !.handlers = TRUE]

\* a call of connect()
Connect ==
    /\ Settled
    /\ database.calls < MaxCalls
    /\ database' = ConnectUpToAwait([database EXCEPT !.calls = @ + 1, !.failed = 0])
    /\ UNCHANGED <<repositories, paging, http, auth>>

\* mongoose.connect has resolved: the rest of the try block
ConnectAfterConnect ==
    /\ database.pc = "connecting"
    /\ database' = [database EXCEPT !.pc = "returned", !.connection = "connection",
                                    !.connectionState = TRUE,
                                    !.connectionAttempts = 0]
    /\ UNCHANGED <<repositories, paging, http, auth>>

\* handleConnectionError up to its await of the delay, or up to its throw
HandleConnectionErrorUpToAwait(db) ==
    LET counted == [db EXCEPT !.connectionAttempts = @ + 1, !.failed = @ + 1]
    IN  IF counted.connectionAttempts < MAX_RETRY_ATTEMPTS
        THEN [counted EXCEPT !.pc = "delay"]
        ELSE [counted EXCEPT !.pc = "thrown"]

\* mongoose.connect has rejected: the catch block and handleConnectionError
ConnectCatch ==
    /\ database.pc = "connecting"
    /\ database' = HandleConnectionErrorUpToAwait(database)
    /\ UNCHANGED <<repositories, paging, http, auth>>

\* the delay is over: handleConnectionError calls connect again
HandleConnectionErrorAfterDelay ==
    /\ database.pc = "delay"
    /\ database' = ConnectUpToAwait(database)
    /\ UNCHANGED <<repositories, paging, http, auth>>

\* disconnect()
Disconnect ==
    /\ Settled
    /\ database' = IF ~database.connectionState
                   THEN [database EXCEPT !.pc = "disconnected"]
                   ELSE [database EXCEPT !.pc = "disconnected",
                                         !.connectionState = FALSE,
                                         !.connection = "null"]
    /\ UNCHANGED <<repositories, paging, http, auth>>

\* the handler of mongoose's 'disconnected' event: the server is gone
OnDisconnected ==
    /\ database.handlers
    /\ database.connectionState
    /\ database' = [database EXCEPT !.connectionState = FALSE]
    /\ UNCHANGED <<repositories, paging, http, auth>>

NextDatabase ==
    \/ Connect
    \/ ConnectAfterConnect
    \/ ConnectCatch
    \/ HandleConnectionErrorAfterDelay
    \/ Disconnect
    \/ OnDisconnected

SpecDatabase == InitDatabase /\ [][NextDatabase]_vars

\* C28: a call of connect() on a connection that is not connected returns
\* the connection at the first attempt that succeeds, or throws after
\* exactly MAX_RETRY_ATTEMPTS failed attempts; this holds for every call,
\* also one made after an earlier call has used up its retries.
ConnectThrowsAfterMaxAttempts ==
    /\ database.pc = "thrown" => database.failed = MAX_RETRY_ATTEMPTS
    /\ database.pc \in {"connecting", "delay"} => database.failed < MAX_RETRY_ATTEMPTS
    /\ database.pc = "returned" => database.connection = "connection"

-----------------------------------------------------------------------------
(***************************************************************************)
(* The frontend's AuthProvider.  auth.user is the state of useState,       *)
(* auth.storage the 'teamera_user' entry of localStorage, auth.pending the *)
(* calls that wait for the response of the backend, and auth.loggedOut     *)
(* tells that logout() has run and neither login() nor signup() has been   *)
(* called since.                                                           *)
(***************************************************************************)

\* calls that wait for a response at the same time
MaxPending == 2

\* user when nobody is signed in, and localStorage without the entry
NoUser == [kind |-> "null"]

\* the userData AuthModal passes to login(): without an id and with one
LoginInputs == {[kind |-> "user", name |-> "Bo"], [kind |-> "user", name |-> "Bo", id |-> 7]}

\* the profileData OnboardingModal passes to updateProfile()
ProfileUpdates == {[role |-> "founder"], [role |-> "student", title |-> "Lead"]}

\* what fetch can come back with: a response that is ok, one that is not,
\* a network error
Responses == {"ok", "not ok", "error"}

\* { ...object, ...more }
SpreadObject(object, more) ==
    [f \in DOMAIN object \cup DOMAIN more |->
        IF f \in DOMAIN more THEN more[f] ELSE object[f]]

\* the data of the backend's response for the user it stores under the id
BackendUser(id) == [kind |-> "user", name |-> "Bo", id |-> id, bio |-> ""]

\* the id a successful signup comes back with
NewId == 8

\* useState(null), useState(true), useState(false); localStorage is empty or
\* holds the user of an earlier session
InitAuth ==
    /\ InitRepositories
    /\ paging = Idle
    /\ http = Idle
    /\ database = Idle
    /\ auth \in {[user |-> NoUser, loading |-> TRUE, showAuthModal |-> FALSE,
                  storage |-> storage, pending |-> <<>>, loggedOut |-> FALSE] :
                    storage \in {NoUser, BackendUser(7)}}

\* the effect that runs once after the first render
Mount ==
    /\ auth.loading
    /\ auth' = [auth EXCEPT !.user = IF auth.storage # NoUser THEN auth.storage ELSE @,
                            !.loading = FALSE]
    /\ UNCHANGED <<repositories, paging, http, database>>

\* the sequence without its i-th element
Without(seq, i) == SubSeq(seq, 1, i - 1) \o SubSeq(seq, i + 1, Len(seq))

\* AuthModal is open
OpenAuthModal ==
    /\ ~auth.loading
    /\ ~auth.showAuthModal
    /\ auth.user = NoUser
    /\ auth' = [auth EXCEPT !.showAuthModal = TRUE]
    /\ UNCHANGED <<repositories, paging, http, database>>

\* the rest of login once storeUserProfile has returned storedUser
LoginStore(a, storedUser) ==
    [a EXCEPT !.user = storedUser, !.storage = storedUser, !.showAuthModal = FALSE]

\* login(userData), up to the await of fetch in storeUserProfile; userData
\* without an id makes storeUserProfile return without a fetch
Login ==
    \E userData \in LoginInputs :
        /\ ~auth.loading
        /\ auth.showAuthModal
        /\ Len(auth.pending) < MaxPending
        /\ auth' = IF "id" \in DOMAIN userData
                   THEN [auth EXCEPT !.loggedOut = FALSE,
                                     !.pending = Append(@, [op |-> "login",
                                                            data |-> userData])]
                   ELSE LoginStore([auth EXCEPT !.loggedOut = FALSE], userData)
        /\ UNCHANGED <<repositories, paging, http, database>>

\* the fetch of storeUserProfile is over: the rest of storeUserProfile and of
\* login
LoginAfterStoreUserProfile ==
    \E i \in DOMAIN auth.pending, response \in Responses :
        /\ auth.pending[i].op = "login"
        /\ LET userData == auth.pending[i].data
               storedUser == IF response = "ok" THEN BackendUser(userData.id)
                             ELSE userData
           IN  auth' = LoginStore([auth EXCEPT !.pending = Without(@, i)], storedUser)
        /\ UNCHANGED <<repositories, paging, http, database>>

\* logout()
Logout ==
    /\ ~auth.loading
    /\ auth.user # NoUser
    /\ auth' = [auth EXCEPT !.user = NoUser, !.storage = NoUser, !.loggedOut = TRUE]
    /\ UNCHANGED <<repositories, paging, http, database>>

\* signup(userData), up to the await of fetch
Signup ==
    /\ ~auth.loading
    /\ auth.showAuthModal
    /\ Len(auth.pending) < MaxPending
    /\ auth' = [auth EXCEPT !.loggedOut = FALSE,
                            !.pending = Append(@, [op |-> "signup"])]
    /\ UNCHANGED <<repositories, paging, http, database>>

\* the fetch of signup is over
SignupAfterFetch ==
    \E i \in DOMAIN auth.pending, response \in Responses :
        /\ auth.pending[i].op = "signup"
        /\ auth' = IF response = "ok"
                   THEN [auth EXCEPT !.pending = Without(@, i),
                                     !.user = BackendUser(NewId),
                                     !.storage = BackendUser(NewId),
                                     !.showAuthModal = FALSE]
                   ELSE [auth EXCEPT !.pending = Without(@, i)]
        /\ UNCHANGED <<repositories, paging, http, database>>

\* getRoleDisplayTitle and the assignment of the title
WithTitle(profileData) ==
    IF "role" \in DOMAIN profileData /\ "title" \notin DOMAIN profileData
    THEN SpreadObject(profileData,
            [title |-> IF profileData.role = "founder" THEN "The Founder"
                       ELSE IF profileData.role = "professional" THEN "The Professional"
                       ELSE IF profileData.role = "investor" THEN "The Investor"
                       ELSE IF profileData.role = "student" THEN "The Student"
                       ELSE "Developer"])
    ELSE profileData

\* updateProfile(profileData), called by OnboardingModal for the user who is
\* signed in, up to the await of fetch; a user without an id is not synced
UpdateProfile ==
    \E profileData \in ProfileUpdates :
        /\ ~auth.loading
        /\ auth.user # NoUser
        /\ Len(auth.pending) < MaxPending
        /\ LET updatedUser == SpreadObject(auth.user, WithTitle(profileData))
           IN  auth' = [auth EXCEPT
                           !.user = updatedUser,
                           !.storage = updatedUser,
                           !.pending = IF "id" \in DOMAIN auth.user
                                       THEN Append(@, [op |-> "updateProfile",
                                                       data |-> updatedUser])
                                       ELSE @]
        /\ UNCHANGED <<repositories, paging, http, database>>

\* the fetch of updateProfile is over
UpdateProfileAfterFetch ==
    \E i \in DOMAIN auth.pending, response \in Responses :
        /\ auth.pending[i].op = "updateProfile"
        /\ LET updatedUser == auth.pending[i].data
               mergedUser == SpreadObject(updatedUser, BackendUser(updatedUser.id))
           IN  auth' = IF response = "ok"
                       THEN [auth EXCEPT !.pending = Without(@, i),
                                         !.user = mergedUser,
                                         !.storage = mergedUser]
                       ELSE [auth EXCEPT !.pending = Without(@, i)]
        /\ UNCHANGED <<repositories, paging, http, database>>

NextAuth ==
    \/ Mount
    \/ OpenAuthModal
    \/ Login
    \/ LoginAfterStoreUserProfile
    \/ Logout
    \/ Signup
    \/ SignupAfterFetch
    \/ UpdateProfile
    \/ UpdateProfileAfterFetch

SpecAuth == InitAuth /\ [][NextAuth]_vars

\* C29: once logout() has run, user is null and localStorage has no
\* 'teamera_user' entry, and both stay so until the next call of login() or
\* signup(), also when a login() or updateProfile() that started before the
\* logout still waits for its response.
SignedOutUntilNextLogin ==
    auth.loggedOut => auth.user = NoUser /\ auth.storage = NoUser

-----------------------------------------------------------------------------
(***************************************************************************)
(* CreateProject, AddTeamMember and RemoveTeamMember as executions that    *)
(* interleave with each other and with AcceptApplication.                  *)
(* projectRepository.findById returns the stored Project itself, so what   *)
(* an execution does to the project it has found is done to the stored     *)
(* project, before update stores it again.                                 *)
(***************************************************************************)

\* the CreateProject requests of interleaving executions
RaceProjects ==
    {[title |-> TitleApp, description |-> DescriptionOk, stage |-> NoStage,
      industry |-> Industry, ownerId |-> o] : o \in Actors \ {3}}

\* CreateProjectUseCase.execute from the call to the awaited
\* userRepository.findById
CreateProjectCall(inputs) ==
    /\ Len(tasks) < MaxTasks
    /\ \E input \in inputs :
        tasks' = Append(tasks,
                    [NewTask("CreateProject", "findById", 0, input)
                        EXCEPT !.user = IF UserExists(input.ownerId)
                                        THEN FromPersistence(users[input.ownerId])
                                        ELSE NullUser])
    /\ UNCHANGED <<users, projects, applications, userSeq, projectSeq,
                   applicationSeq, last, others>>

\* from the result of findById to the awaited existsByTitleAndOwner
CreateProjectAfterFindById ==
    \E t \in Suspended("CreateProject", "findById") :
        LET input == tasks[t].data
        IN  /\ IF tasks[t].user.id = 0
               THEN /\ tasks' = Finish(t, "Error")
                    /\ last' = Call("CreateProject", "Error", <<>>, <<>>, 0)
               ELSE IF input.title = Undefined
               THEN /\ tasks' = Finish(t, "TypeError")
                    /\ last' = Call("CreateProject", "TypeError", <<>>, <<>>, 0)
               ELSE /\ tasks' = [tasks EXCEPT
                            ![t].pc = "existsByTitleAndOwner",
                            ![t].found =
                                IF ExistsByTitleAndOwner(input.title, input.ownerId)
                                THEN 1 ELSE 0]
                    /\ UNCHANGED last
            /\ UNCHANGED <<users, projects, applications, userSeq, projectSeq,
                           applicationSeq, others>>

\* from the result of existsByTitleAndOwner to the awaited import of the
\* Project entity
CreateProjectAfterExists ==
    \E t \in Suspended("CreateProject", "existsByTitleAndOwner") :
        /\ IF tasks[t].found = 1
           THEN /\ tasks' = Finish(t, "Error")
                /\ last' = Call("CreateProject", "Error", <<>>, <<>>, 0)
           ELSE /\ tasks' = [tasks EXCEPT ![t].pc = "import"]
                /\ UNCHANGED last
        /\ UNCHANGED <<users, projects, applications, userSeq, projectSeq,
                       applicationSeq, others>>

\* from the import to the awaited save: Project.validate, Project.create with
\* the owner as the only team member, and save
CreateProjectAfterImport ==
    \E t \in Suspended("CreateProject", "import") :
        LET input == tasks[t].data
            owner == tasks[t].user
            data == [title |-> input.title, description |-> input.description,
                     stage |-> input.stage, industry |-> input.industry,
                     ownerId |-> input.ownerId,
                     teamMembers |-> <<Member(owner.id, Founder)>>]
        IN  /\ IF ~ProjectIsValid(input)
               THEN /\ tasks' = Finish(t, "ValidationError")
                    /\ last' = Call("CreateProject", "ValidationError", <<>>, <<>>, 0)
                    /\ UNCHANGED <<projects, projectSeq>>
               ELSE /\ projectSeq < MaxProjects
                    /\ projects' = MapSet(projects, ProjectId(projectSeq + 1),
                                          ProjectCreate(ProjectId(projectSeq + 1), data))
                    /\ projectSeq' = projectSeq + 1
                    /\ tasks' = [tasks EXCEPT ![t].pc = "save"]
                    /\ UNCHANGED last
            /\ UNCHANGED <<users, applications, userSeq, applicationSeq, others>>

\* from the result of save to the return
CreateProjectAfterSave ==
    \E t \in Suspended("CreateProject", "save") :
        /\ tasks' = Finish(t, "ok")
        /\ last' = Call("CreateProject", "ok", <<>>, <<>>, 0)
        /\ UNCHANGED <<users, projects, applications, userSeq, projectSeq,
                       applicationSeq, others>>

\* AddTeamMemberUseCase.execute from the call to the awaited
\* projectRepository.findById
AddTeamMemberCall(targets, requesters) ==
    /\ Len(tasks) < MaxTasks
    /\ \E projectId \in targets, memberId \in Actors, requesterId \in requesters :
        tasks' = Append(tasks,
                    [NewTask("AddTeamMember", "findById", projectId,
                             [memberId |-> memberId, requesterId |-> requesterId,
                              role |-> Designer])
                        EXCEPT !.project = IF projectId \in DOMAIN projects
                                           THEN projects[projectId] ELSE NullProject])
    /\ UNCHANGED <<users, projects, applications, userSeq, projectSeq,
                   applicationSeq, last, others>>

\* from the result of projectRepository.findById to the awaited
\* userRepository.findById
AddTeamMemberAfterFindById ==
    \E t \in Suspended("AddTeamMember", "findById") :
        LET memberId == tasks[t].data.memberId
        IN  /\ IF tasks[t].project.id = 0
               THEN /\ tasks' = Finish(t, "NotFoundError")
                    /\ last' = Call("AddTeamMember", "NotFoundError", <<>>, <<>>, 0)
               ELSE IF ProjectOf(t).ownerId # tasks[t].data.requesterId
               THEN /\ tasks' = Finish(t, "AuthorizationError")
                    /\ last' = Call("AddTeamMember", "AuthorizationError", <<>>, <<>>, 0)
               ELSE /\ tasks' = [tasks EXCEPT
                            ![t].pc = "userFindById",
                            ![t].user = IF UserExists(memberId)
                                        THEN FromPersistence(users[memberId])
                                        ELSE NullUser]
                    /\ UNCHANGED last
            /\ UNCHANGED <<users, projects, applications, userSeq, projectSeq,
                           applicationSeq, others>>

\* from the result of userRepository.findById to the awaited update:
\* project.addTeamMember on the project that was found, which throws when the
\* user is on the team, then update(project), which throws when the project
\* is stored no longer
AddTeamMemberAfterUserFindById ==
    \E t \in Suspended("AddTeamMember", "userFindById") :
        LET projectId == tasks[t].project.id
            member == Member(tasks[t].user.id, tasks[t].data.role)
        IN  /\ IF tasks[t].user.id = 0
               THEN /\ tasks' = Finish(t, "NotFoundError")
                    /\ last' = Call("AddTeamMember", "NotFoundError", <<>>, <<>>, 0)
                    /\ UNCHANGED projects
               ELSE IF \/ ~CanAddTeamMember(ProjectOf(t), member)
                       \/ projectId \notin DOMAIN projects
               THEN /\ tasks' = Finish(t, "Error")
                    /\ last' = Call("AddTeamMember", "Error", <<>>, <<>>, 0)
                    /\ UNCHANGED projects
               ELSE /\ projects' = MapSet(projects, projectId,
                                          ProjectAddTeamMember(projects[projectId], member))
                    /\ tasks' = [tasks EXCEPT ![t].pc = "update"]
                    /\ UNCHANGED last
            /\ UNCHANGED <<users, applications, userSeq, projectSeq, applicationSeq, others>>

\* from the result of update to the return
AddTeamMemberAfterUpdate ==
    \E t \in Suspended("AddTeamMember", "update") :
        /\ tasks' = Finish(t, "ok")
        /\ last' = Call("AddTeamMember", "ok", <<>>, <<>>, 0)
        /\ UNCHANGED <<users, projects, applications, userSeq, projectSeq,
                       applicationSeq, others>>

\* RemoveTeamMemberUseCase.execute from the call to the awaited
\* projectRepository.findById
RemoveTeamMemberCall(targets, requesters) ==
    /\ Len(tasks) < MaxTasks
    /\ \E projectId \in targets, memberId \in Actors, requesterId \in requesters :
        tasks' = Append(tasks,
                    [NewTask("RemoveTeamMember", "findById", projectId,
                             [memberId |-> memberId, requesterId |-> requesterId])
                        EXCEPT !.project = IF projectId \in DOMAIN projects
                                           THEN projects[projectId] ELSE NullProject])
    /\ UNCHANGED <<users, projects, applications, userSeq, projectSeq,
                   applicationSeq, last, others>>

\* from the result of findById to the awaited update: the checks,
\* project.removeTeamMember on the project that was found, then update(project)
RemoveTeamMemberAfterFindById ==
    \E t \in Suspended("RemoveTeamMember", "findById") :
        LET projectId == tasks[t].project.id
            memberId == tasks[t].data.memberId
            requesterId == tasks[t].data.requesterId
            project == ProjectOf(t)
        IN  /\ IF projectId = 0
               THEN /\ tasks' = Finish(t, "NotFoundError")
                    /\ last' = Call("RemoveTeamMember", "NotFoundError", <<>>, <<>>, 0)
                    /\ UNCHANGED projects
               ELSE IF project.ownerId # requesterId /\ memberId # requesterId
               THEN /\ tasks' = Finish(t, "AuthorizationError")
                    /\ last' = Call("RemoveTeamMember", "AuthorizationError", <<>>, <<>>, 0)
                    /\ UNCHANGED projects
               ELSE IF memberId = project.ownerId
               THEN /\ tasks' = Finish(t, "ValidationError")
                    /\ last' = Call("RemoveTeamMember", "ValidationError", <<>>, <<>>, 0)
                    /\ UNCHANGED projects
               ELSE IF \/ ~CanRemoveTeamMember(project, memberId)
                       \/ projectId \notin DOMAIN projects
               THEN /\ tasks' = Finish(t, "Error")
                    /\ last' = Call("RemoveTeamMember", "Error", <<>>, <<>>, 0)
                    /\ UNCHANGED projects
               ELSE /\ projects' = MapSet(projects, projectId,
                                          ProjectRemoveTeamMember(project, memberId))
                    /\ tasks' = [tasks EXCEPT ![t].pc = "update"]
                    /\ UNCHANGED last
            /\ UNCHANGED <<users, applications, userSeq, projectSeq, applicationSeq, others>>

\* from the result of update to the return
RemoveTeamMemberAfterUpdate ==
    \E t \in Suspended("RemoveTeamMember", "update") :
        /\ tasks' = Finish(t, "ok")
        /\ last' = Call("RemoveTeamMember", "ok", <<>>, <<>>, 0)
        /\ UNCHANGED <<users, projects, applications, userSeq, projectSeq,
                       applicationSeq, others>>

\* one user registers and applies to 'proj_2'; executions of the four use
\* cases interleave; AddTeamMember and RemoveTeamMember also run one after
\* the other, any number of times
NextRaceTeam ==
    \/ CreateUser({[name |-> NameBo, email |-> GenEmail(1)]})
    \/ CreateApplication({2}, MaxTeamApplications)
    \/ CreateProjectCall(RaceProjects)
    \/ CreateProjectAfterFindById
    \/ CreateProjectAfterExists
    \/ CreateProjectAfterImport
    \/ CreateProjectAfterSave
    \/ AddTeamMemberCall({2}, {2})
    \/ AddTeamMemberAfterFindById
    \/ AddTeamMemberAfterUserFindById
    \/ AddTeamMemberAfterUpdate
    \/ RemoveTeamMemberCall({2}, {2})
    \/ RemoveTeamMemberAfterFindById
    \/ RemoveTeamMemberAfterUpdate
    \/ AcceptApplicationCall
    \/ AcceptApplicationAfterFindById
    \/ AcceptApplicationAfterProjectFindById
    \/ AcceptApplicationAfterUserFindById
    \/ AcceptApplicationAfterUpdate
    \/ AcceptApplicationAddTeamMember
    \/ AcceptApplicationAfterAddTeamMember

SpecRaceTeam == Init /\ [][NextRaceTeam]_vars

\* C30: no stored project's teamMembers has two entries with the same id,
\* whatever the sequence and the interleaving at the awaits of CreateProject,
\* AddTeamMember, RemoveTeamMember and AcceptApplication; an attempt to add a
\* user who is on the team fails and leaves the projects as they are.
NoMemberTwice ==
    /\ \A p \in DOMAIN projects :
          \A i, j \in DOMAIN projects[p].teamMembers :
              projects[p].teamMembers[i].id = projects[p].teamMembers[j].id => i = j
    /\ \A p \in DOMAIN projects, memberId \in AnyCaller, requesterId \in AnyCaller :
          OnTeam(projects[p], memberId)
          => LET out == AddTeamMemberOutcome(p, memberId, Designer, requesterId)
             IN  out.result # "ok" /\ out.projects = projects
    /\ \A t \in DOMAIN tasks :
          /\ tasks[t].op = "AddTeamMember"
          /\ tasks[t].pc = "userFindById"
          /\ tasks[t].user.id # 0
          /\ OnTeam(ProjectOf(t), tasks[t].user.id)
          => ~ENABLED (AddTeamMemberAfterUserFindById /\ tasks'[t].pc = "update")

\* an AddTeamMember and an AcceptApplication for the same user and project ran
\* at the same time: the first has put the user on the team, the second has
\* failed at its own addTeamMember
SecondAddRefused ==
    /\ Len(tasks) = 2
    /\ {tasks[1].op, tasks[2].op} = {"AddTeamMember", "AcceptApplication"}
    /\ \E t, u \in DOMAIN tasks :
        /\ tasks[t].result = "ok"
        /\ tasks[u].result = "Error"
        /\ tasks[u].user.id = tasks[t].user.id
        /\ tasks[u].user.id # 0
        /\ OnTeam(projects[2], tasks[t].user.id)

=============================================================================
